---- MODULE Spec2Model ----
(***************************************************************************)
(* State-machine model of the chat-agent gateway's channel adapters        *)
(* (src/src/channels/slack.ts: SlackChannel, SignalChannel, config) and of *)
(* the voice HTTP endpoint (src/src/voice-api.ts).                         *)
(***************************************************************************)
EXTENDS Integers, Sequences, FiniteSets, TLC

(***************************************************************************)
(* Bounds of the model.                                                    *)
(***************************************************************************)
\* number of sendMessage calls made on the SignalChannel
MaxSends == 3
\* number of interval timers that may be alive at once
MaxTimers == 2
\* number of poll timer ticks
MaxPolls == 3
\* number of ':'-separated segments of a ChatId put to ownsJid
MaxSegs == 3
\* number of conversations in the address book
MaxRegistered == 2
\* number of chunks a request body arrives in
MaxChunks == 3
\* number of tokens (markers and pieces of text) of a worker output
MaxTokens == 5
\* number of pieces (URLs, punctuation, blanks) of a mail body
MaxUrlTokens == 3
\* number of characters of a text tested against the trigger pattern
MaxTextLen == 4
\* number of pieces (mentions, words, blanks) of a Slack message text
MaxMentionTokens == 4
\* number of inbound deliveries
MaxDeliveries == 2

VARIABLES
    \* ---- SignalChannel fields (slack.ts:273-277)
    connected,        \* private connected
    outgoingQueue,    \* private outgoingQueue, a sequence of message ids
    flushing,         \* private flushing
    polling,          \* private polling
    pollTimer,        \* private pollTimer: TRUE when it holds a timer, FALSE when null
    \* ---- the event loop around the SignalChannel
    activeTimers,     \* interval timers created by connect() and not cleared
    connectsInFlight, \* connect() calls awaiting the `version` RPC
    flushItem,        \* message whose `send` RPC flushOutgoingQueue awaits (0: none)
    directInFlight,   \* messages whose `send` RPC sendMessage awaits
    receiveInFlight,  \* `receive` RPCs in flight
    transport,        \* messages the signal-cli daemon accepted, in order
    msgs,             \* per sendMessage call: whether the channel was disconnected
                      \* (offline), whether the call issued the RPC itself (direct),
                      \* how the call and the last RPC for it ended, and whether a
                      \* connect() has succeeded since the call (reconnected)
    nextMsg,          \* id of the next sendMessage call
    pollTicks,        \* timer ticks so far
    coalesced,        \* some tick found a poll in flight
    lastPollEnd,      \* how the last poll() ended
    \* ---- ownership queries (ownsJid of the three channel instances)
    ownsJidArg,       \* the ChatId asked about
    ownsNamespace,    \* opts.namespace of the namespaced SlackChannel
    ownsAnswer,       \* what each instance's ownsJid returned
    \* ---- SlackChannel fields (slack.ts:18-29) and the host's callbacks
    slackNs,          \* opts.namespace (the empty string: none)
    slackStarted,     \* app.start() has resolved: events are flowing
    slackAuthPending, \* connect() awaits auth.test
    slackConnected,   \* private connected
    botUserId,        \* private botUserId (the empty string: null)
    dmChannelCache,   \* private dmChannelCache: user -> DM channel ("" : none)
    slackLast,        \* when the last operation was SlackChannel.sendMessage:
                      \* the call and how it ended
    registered,       \* opts.registeredGroups(): the ChatIds of the address book
    lastCalls,        \* when the last operation was an inbound event: the
                      \* callbacks it raised, in order
    \* ---- the voice HTTP endpoint (voice-api.ts)
    voiceToken,       \* VOICE_API_TOKEN, read once at startup
    lastRequest,      \* the last request served: what it was, the status it was
                      \* answered with and whether it started a worker
    \* ---- readBody of one POST /api/run request (voice-api.ts:188-205)
    bodyChunks,       \* chunks: the lengths of the chunks kept
    bodySize,         \* size
    bodyReceived,     \* bytes handed to the 'data' listener so far
    bodyState,        \* the promise: "reading", "resolved" or "rejected"
    bodyAnswer,       \* the response of the request, once sent
    \* ---- the text of one worker output (voice-api.ts:148-159)
    stripIn,          \* output.result, as a sequence of tokens
    stripOut,         \* whether a result was delivered for it, and its text
    \* ---- voice runs (voice-api.ts:59-186)
    runs,             \* per request: the locals of handleRun, the timer, the
                      \* worker and the response
    voiceSessionId,   \* let voiceSessionId ("" : undefined)
    sessionStore,     \* the sessions table: session key -> session id ("" : no row)
    voiceEvent,       \* the last callback that ran, the text and the session
                      \* id it carried
    \* ---- tool IPC (bookmarks.ts, reminders.ts)
    bookmarkRaw,      \* the content of the bookmark request file
    remindersRaw,     \* the content of the reminders request file
    ipcFiles,         \* the files of the IPC tree: path -> content
    bookmarkIpc,      \* processBookmarkIpc: where it is, and its locals
    remindersIpc,     \* processRemindersIpc: what the call did
    workerRead,       \* what the worker's last poll read
    \* ---- mail intake (email-intake.ts and its scheduler)
    mailThreadOf,     \* message -> the thread it belongs to
    mailLabeled,      \* the messages that carry the processed label
    mailBookmarked,   \* the URLs the relay has bookmarked
    emailPolls,       \* poll slot -> where that pollEmailIntake run stands
    emailLoop,        \* the scheduler: running flag, timer, what reached the host
    \* ---- extractUrls (email-intake.ts)
    urlIn,            \* the body extractUrls was called with
    urlOut,           \* whether it was called, and what it returned
    \* ---- TRIGGER_PATTERN (slack.ts:594-601)
    trigIn,           \* the assistant name and the text of one test
    trigOut,          \* whether the test was made, and its answer
    \* ---- the content of a Slack message (slack.ts:139-140, 188-192)
    contentIn,        \* the bot identity, the kind of message and its text
    contentOut,       \* whether the content was computed, and the content
    \* ---- inbound deliveries and their message ids
    raised,           \* message id -> how often opts.onMessage was called with it
    deliveries,       \* number of inbound deliveries so far
    \* writeRemindersSnapshot as the worker's process sees it
    snapshotWrite,    \* the write in progress: pc, groupFolder, body, outcome
    snapshotRead,     \* what the worker read last from a reminders_snapshot.json
    \* a reply to the ChatId of an inbound message
    inboundOrigins,   \* per on-message call of the last event: where it came from
    replyAddress      \* the last sendMessage to such a ChatId: what it addressed

signalVars == <<connected, outgoingQueue, flushing, polling, pollTimer,
                activeTimers, connectsInFlight, flushItem,
                directInFlight, receiveInFlight, transport, msgs,
                nextMsg, pollTicks, coalesced, lastPollEnd>>

ownsVars == <<ownsJidArg, ownsNamespace, ownsAnswer>>

channelVars == <<slackNs, slackStarted, slackAuthPending, slackConnected,
                 botUserId, dmChannelCache, slackLast, registered, lastCalls>>

voiceVars == <<voiceToken, lastRequest>>

bodyVars == <<bodyChunks, bodySize, bodyReceived, bodyState, bodyAnswer>>

stripVars == <<stripIn, stripOut>>

runVars == <<runs, voiceSessionId, sessionStore, voiceEvent>>

ipcVars == <<bookmarkRaw, remindersRaw, ipcFiles, bookmarkIpc, remindersIpc, workerRead>>

emailVars == <<mailThreadOf, mailLabeled, mailBookmarked, emailPolls, emailLoop>>

urlVars == <<urlIn, urlOut>>

trigVars == <<trigIn, trigOut>>

contentVars == <<contentIn, contentOut>>

inboundVars == <<raised, deliveries>>

snapshotVars == <<snapshotWrite, snapshotRead>>

roundVars == <<inboundOrigins, replyAddress>>

vars == <<signalVars, ownsVars, channelVars, voiceVars, bodyVars, stripVars, runVars, ipcVars, emailVars, urlVars, trigVars, contentVars, inboundVars, snapshotVars, roundVars>>

notSignalVars == <<ownsVars, channelVars, voiceVars, bodyVars, stripVars, runVars, ipcVars, emailVars, urlVars, trigVars, contentVars, inboundVars, snapshotVars, roundVars>>
notOwnsVars == <<signalVars, channelVars, voiceVars, bodyVars, stripVars, runVars, ipcVars, emailVars, urlVars, trigVars, contentVars, inboundVars, snapshotVars, roundVars>>
notChannelVars == <<signalVars, ownsVars, voiceVars, bodyVars, stripVars, runVars, ipcVars, emailVars, urlVars, trigVars, contentVars, inboundVars, snapshotVars, roundVars>>
notVoiceVars == <<signalVars, ownsVars, channelVars, bodyVars, stripVars, runVars, ipcVars, emailVars, urlVars, trigVars, contentVars, inboundVars, snapshotVars, roundVars>>
notBodyVars == <<signalVars, ownsVars, channelVars, voiceVars, stripVars, runVars, ipcVars, emailVars, urlVars, trigVars, contentVars, inboundVars, snapshotVars, roundVars>>
notStripVars == <<signalVars, ownsVars, channelVars, voiceVars, bodyVars, runVars, ipcVars, emailVars, urlVars, trigVars, contentVars, inboundVars, snapshotVars, roundVars>>
notRunVars == <<signalVars, ownsVars, channelVars, voiceVars, bodyVars, stripVars, ipcVars, emailVars, urlVars, trigVars, contentVars, inboundVars, snapshotVars, roundVars>>
notIpcVars == <<signalVars, ownsVars, channelVars, voiceVars, bodyVars, stripVars, runVars, emailVars, urlVars, trigVars, contentVars, inboundVars, snapshotVars, roundVars>>
notEmailVars == <<signalVars, ownsVars, channelVars, voiceVars, bodyVars, stripVars, runVars, ipcVars, urlVars, trigVars, contentVars, inboundVars, snapshotVars, roundVars>>
notUrlVars == <<signalVars, ownsVars, channelVars, voiceVars, bodyVars, stripVars, runVars, ipcVars, emailVars, trigVars, contentVars, inboundVars, snapshotVars, roundVars>>
notTrigVars == <<signalVars, ownsVars, channelVars, voiceVars, bodyVars, stripVars, runVars, ipcVars, emailVars, urlVars, contentVars, inboundVars, snapshotVars, roundVars>>
notContentVars == <<signalVars, ownsVars, channelVars, voiceVars, bodyVars, stripVars, runVars, ipcVars, emailVars, urlVars, trigVars, inboundVars, snapshotVars, roundVars>>
notInboundVars == <<signalVars, ownsVars, channelVars, voiceVars, bodyVars, stripVars, runVars, ipcVars, emailVars, urlVars, trigVars, contentVars, snapshotVars, roundVars>>
notSnapshotVars == <<signalVars, ownsVars, channelVars, voiceVars, bodyVars, stripVars, runVars, ipcVars, emailVars, urlVars, trigVars, contentVars, inboundVars, roundVars>>
notRoundVars == <<signalVars, ownsVars, channelVars, voiceVars, bodyVars, stripVars, runVars, ipcVars, emailVars, urlVars, trigVars, contentVars, inboundVars, snapshotVars>>
notChannelInboundVars == <<signalVars, ownsVars, voiceVars, bodyVars, stripVars, runVars, ipcVars, emailVars, urlVars, trigVars, contentVars, snapshotVars, roundVars>>
notIpcSnapshotVars == <<signalVars, ownsVars, channelVars, voiceVars, bodyVars, stripVars, runVars, emailVars, urlVars, trigVars, contentVars, inboundVars, roundVars>>
notChannelRoundVars == <<signalVars, ownsVars, voiceVars, bodyVars, stripVars, runVars, ipcVars, emailVars, urlVars, trigVars, contentVars, inboundVars, snapshotVars>>

Msgs == 1..MaxSends

(***************************************************************************)
(* Strings are sequences of one-character strings, so that startsWith,     *)
(* charAt, slice and toUpperCase are computed as JavaScript computes them. *)
(***************************************************************************)
LowerChars == <<"a", "b", "c", "d", "e", "f", "g", "h", "i", "j", "k", "l", "m",
                "n", "o", "p", "q", "r", "s", "t", "u", "v", "w", "x", "y", "z">>
UpperChars == <<"A", "B", "C", "D", "E", "F", "G", "H", "I", "J", "K", "L", "M",
                "N", "O", "P", "Q", "R", "S", "T", "U", "V", "W", "X", "Y", "Z">>

\* String.prototype.startsWith
StartsWith(str, prefix) ==
    /\ Len(prefix) <= Len(str)
    /\ SubSeq(str, 1, Len(prefix)) = prefix

\* String.prototype.charAt (0-based): the empty string past the end.
CharAt(str, i) == IF i + 1 <= Len(str) THEN <<str[i + 1]>> ELSE <<>>

\* String.prototype.slice(n)
Slice(str, n) == SubSeq(str, n + 1, Len(str))

\* String.prototype.toUpperCase
ToUpperChar(c) ==
    IF \E i \in 1..26 : LowerChars[i] = c
    THEN UpperChars[CHOOSE i \in 1..26 : LowerChars[i] = c]
    ELSE c
ToUpperCase(str) == [i \in 1..Len(str) |-> ToUpperChar(str[i])]

Colon == <<":">>
StrSlack == <<"s", "l", "a", "c", "k">>
StrSig == <<"s", "i", "g">>
StrChannel == <<"c", "h", "a", "n", "n", "e", "l">>
StrGroup == <<"g", "r", "o", "u", "p">>

(***************************************************************************)
(* ownsJid of SlackChannel and SignalChannel.                              *)
(***************************************************************************)
\* SlackChannel constructor: this.prefix and this.channelPrefix.  An empty
\* namespace is falsy.
SlackPrefix(ns) ==
    IF ns # <<>> THEN StrSlack \o Colon \o ns \o Colon ELSE StrSlack \o Colon
SlackChannelPrefix(ns) ==
    IF ns # <<>> THEN StrSlack \o Colon \o ns \o Colon \o StrChannel \o Colon
                 ELSE StrSlack \o Colon \o StrChannel \o Colon

\* SlackChannel.ownsJid
SlackOwnsJid(ns, jid) ==
    IF ns # <<>>
    THEN StartsWith(jid, SlackPrefix(ns))
    ELSE IF ~StartsWith(jid, StrSlack \o Colon)
         THEN FALSE
         ELSE LET afterSlack == CharAt(jid, 6) IN
              \/ afterSlack = ToUpperCase(afterSlack)
              \/ StartsWith(jid, StrSlack \o Colon \o StrChannel \o Colon)

\* SignalChannel.ownsJid
SignalOwnsJid(jid) == StartsWith(jid, StrSig \o Colon)

(***************************************************************************)
(* SignalChannel.rpc: every failure path returns null.                     *)
(***************************************************************************)
RpcOutcomes == {"ok", "http_error", "rpc_error", "fetch_failed", "no_result"}

\* rpc(): res.ok false, body.error set, a thrown fetch (timeout included) and a
\* missing result all give null.
Rpc(o) == IF o = "ok" THEN "result" ELSE "null"

\* The daemon has accepted a request exactly when rpc() got its result: a
\* `send` counts as received by the transport on the ok answer.
DaemonPerformed(o) == Rpc(o) # "null"

\* sendViaRpc(): throws when rpc() returned null.
SendViaRpcThrows(o) == Rpc(o) = "null"

(***************************************************************************)
(* SignalChannel.sendMessage.                                              *)
(***************************************************************************)
\* The synchronous part, up to the await of sendViaRpc.
SendMessageCall(conn, q, m) ==
    IF ~conn
    THEN [queue |-> Append(q, m), issue |-> FALSE, call |-> "returned"]
    ELSE [queue |-> q, issue |-> TRUE, call |-> "pending"]

\* (mutant) a catch block that logs and rethrows, as SlackChannel's does.
SendMessageSettle_Rethrow(q, m, o) ==
    IF SendViaRpcThrows(o)
    THEN [queue |-> q, call |-> "raised"]
    ELSE [queue |-> q, call |-> "returned"]

\* The part after the await: the catch block queues the message.
SendMessageSettle(q, m, o) ==
    IF SendViaRpcThrows(o)
    THEN [queue |-> Append(q, m), call |-> "returned"]
    ELSE [queue |-> q, call |-> "returned"]

(***************************************************************************)
(* SignalChannel.flushOutgoingQueue.                                       *)
(***************************************************************************)
\* Entry, up to the first await.
FlushOutgoingQueue(fl, q) ==
    IF fl \/ Len(q) = 0
    THEN [flushing |-> fl, queue |-> q, item |-> 0, started |-> FALSE]
    ELSE [flushing |-> TRUE, queue |-> Tail(q), item |-> Head(q), started |-> TRUE]

\* (mutant) `if` for `while`: the drain stops after the first message.
FlushResume_OneItem(q, o) ==
    [flushing |-> FALSE, queue |-> q, item |-> 0]

\* After an awaited sendViaRpc: a throw leaves the loop through finally, a
\* success goes round the while loop.
FlushResume(q, o) ==
    IF SendViaRpcThrows(o)
    THEN [flushing |-> FALSE, queue |-> q, item |-> 0]
    ELSE IF Len(q) > 0
         THEN [flushing |-> TRUE, queue |-> Tail(q), item |-> Head(q)]
         ELSE [flushing |-> FALSE, queue |-> q, item |-> 0]

(***************************************************************************)
(* SignalChannel.poll.                                                     *)
(***************************************************************************)
\* (mutant) poll() without the single-flight guard.
PollEnter_NoGuard(p) == [polling |-> TRUE, issue |-> TRUE]

\* Entry: the single-flight guard.
PollEnter(p) ==
    IF p THEN [polling |-> p, issue |-> FALSE]
         ELSE [polling |-> TRUE, issue |-> TRUE]

\* How a poll ends, from the RPC's outcome, the entries and their handling.
PollPath(o, entries, handler) ==
    IF Rpc(o) = "null" THEN "rpc_failed"
    ELSE IF entries = "empty" THEN "empty"
    ELSE IF handler = "throws" THEN "threw"
    ELSE "handled"

\* The finally block: the flag after the poll ended by `path`.
PollFinally(path) == FALSE

(***************************************************************************)
(* Initial state: a constructed, never connected SignalChannel.            *)
(***************************************************************************)
NoMsg == [call |-> "none", offline |-> FALSE, direct |-> FALSE, rpc |-> "none",
          reconnected |-> FALSE]

SignalInit ==
    /\ connected = FALSE
    /\ outgoingQueue = <<>>
    /\ flushing = FALSE
    /\ polling = FALSE
    /\ pollTimer = FALSE
    /\ activeTimers = 0
    /\ connectsInFlight = 0
    /\ flushItem = 0
    /\ directInFlight = {}
    /\ receiveInFlight = 0
    /\ transport = <<>>
    /\ msgs = [m \in Msgs |-> NoMsg]
    /\ nextMsg = 1
    /\ pollTicks = 0
    /\ coalesced = FALSE
    /\ lastPollEnd = "none"

sendVars == <<outgoingQueue, flushing, flushItem, directInFlight,
              transport, msgs, nextMsg>>
pollVars == <<polling, receiveInFlight, pollTicks, coalesced, lastPollEnd>>

(***************************************************************************)
(* connect(): the call issues the `version` RPC ...                        *)
(***************************************************************************)
ConnectStart ==
    /\ activeTimers + connectsInFlight < MaxTimers
    /\ connectsInFlight' = connectsInFlight + 1
    /\ UNCHANGED <<connected, pollTimer, activeTimers>>
    /\ UNCHANGED sendVars
    /\ UNCHANGED pollVars
    /\ UNCHANGED notSignalVars

(***************************************************************************)
(* ... and continues when it answers: throw on null, else set connected,   *)
(* start the flush and create the poll timer.                              *)
(***************************************************************************)
ConnectFinish ==
    /\ connectsInFlight > 0
    /\ connectsInFlight' = connectsInFlight - 1
    /\ \E o \in RpcOutcomes :
         IF Rpc(o) = "null"
         THEN /\ UNCHANGED <<connected, pollTimer, activeTimers>>
              /\ UNCHANGED sendVars
         ELSE LET f == FlushOutgoingQueue(flushing, outgoingQueue) IN
              /\ connected' = TRUE
              /\ flushing' = f.flushing
              /\ outgoingQueue' = f.queue
              /\ flushItem' = IF f.started THEN f.item ELSE flushItem
              /\ pollTimer' = TRUE
              /\ activeTimers' = activeTimers + 1
              /\ msgs' = [m \in Msgs |->
                            IF msgs[m].call = "none" THEN msgs[m]
                            ELSE [msgs[m] EXCEPT !.reconnected = TRUE]]
              /\ UNCHANGED <<directInFlight, transport, nextMsg>>
    /\ UNCHANGED pollVars
    /\ UNCHANGED notSignalVars

(***************************************************************************)
(* disconnect().                                                           *)
(***************************************************************************)
Disconnect ==
    /\ connected' = FALSE
    /\ IF pollTimer
       THEN /\ activeTimers' = activeTimers - 1
            /\ pollTimer' = FALSE
       ELSE UNCHANGED <<activeTimers, pollTimer>>
    /\ UNCHANGED connectsInFlight
    /\ UNCHANGED sendVars
    /\ UNCHANGED pollVars
    /\ UNCHANGED notSignalVars

(***************************************************************************)
(* sendMessage(jid, text): the call.                                       *)
(***************************************************************************)
SendMessage ==
    /\ nextMsg <= MaxSends
    /\ LET m == nextMsg
           s == SendMessageCall(connected, outgoingQueue, m) IN
       /\ outgoingQueue' = s.queue
       /\ directInFlight' = IF s.issue THEN directInFlight \cup {m}
                                       ELSE directInFlight
       /\ msgs' = [msgs EXCEPT ![m] = [call |-> s.call, offline |-> ~connected,
                                       direct |-> s.issue, rpc |-> "none",
                                       reconnected |-> FALSE]]
       /\ nextMsg' = m + 1
    /\ UNCHANGED <<connected, pollTimer, activeTimers, connectsInFlight,
                   flushing, flushItem, transport>>
    /\ UNCHANGED pollVars
    /\ UNCHANGED notSignalVars

(***************************************************************************)
(* sendMessage: the awaited `send` RPC answers.                            *)
(***************************************************************************)
DirectRpcDone ==
    \E m \in directInFlight, o \in RpcOutcomes :
        LET s == SendMessageSettle(outgoingQueue, m, o)
            d == DaemonPerformed(o) IN
        /\ directInFlight' = directInFlight \ {m}
        /\ transport' = IF d THEN Append(transport, m) ELSE transport
        /\ outgoingQueue' = s.queue
        /\ msgs' = [msgs EXCEPT ![m].call = s.call,
                                ![m].rpc = IF SendViaRpcThrows(o) THEN "failed" ELSE "ok"]
        /\ UNCHANGED <<connected, pollTimer, activeTimers, connectsInFlight,
                       flushing, flushItem, nextMsg>>
        /\ UNCHANGED pollVars
        /\ UNCHANGED notSignalVars

(***************************************************************************)
(* flushOutgoingQueue: the awaited `send` RPC answers.                     *)
(***************************************************************************)
FlushRpcDone ==
    /\ flushItem # 0
    /\ \E o \in RpcOutcomes :
         LET f == FlushResume(outgoingQueue, o)
             d == DaemonPerformed(o) IN
         /\ transport' = IF d THEN Append(transport, flushItem) ELSE transport
         /\ flushing' = f.flushing
         /\ outgoingQueue' = f.queue
         /\ flushItem' = f.item
         /\ msgs' = [msgs EXCEPT ![flushItem].rpc =
                        IF SendViaRpcThrows(o) THEN "failed" ELSE "ok"]
    /\ UNCHANGED <<connected, pollTimer, activeTimers, connectsInFlight,
                   directInFlight, nextMsg>>
    /\ UNCHANGED pollVars
    /\ UNCHANGED notSignalVars

(***************************************************************************)
(* The interval timer fires: poll() up to its await.                       *)
(***************************************************************************)
PollTick ==
    /\ activeTimers > 0
    /\ pollTicks < MaxPolls
    /\ pollTicks' = pollTicks + 1
    /\ LET p == PollEnter(polling) IN
       /\ polling' = p.polling
       /\ receiveInFlight' = IF p.issue THEN receiveInFlight + 1 ELSE receiveInFlight
       /\ coalesced' = (coalesced \/ ~p.issue)
    /\ UNCHANGED lastPollEnd
    /\ UNCHANGED <<connected, pollTimer, activeTimers, connectsInFlight>>
    /\ UNCHANGED sendVars
    /\ UNCHANGED notSignalVars

(***************************************************************************)
(* poll(): the `receive` RPC answers, the entries are handled, finally.    *)
(***************************************************************************)
PollDone ==
    /\ receiveInFlight > 0
    /\ \E o \in RpcOutcomes, entries \in {"empty", "some"}, handler \in {"ok", "throws"} :
         LET path == PollPath(o, entries, handler) IN
         /\ lastPollEnd' = path
         /\ polling' = PollFinally(path)
    /\ receiveInFlight' = receiveInFlight - 1
    /\ UNCHANGED <<pollTicks, coalesced>>
    /\ UNCHANGED <<connected, pollTimer, activeTimers, connectsInFlight>>
    /\ UNCHANGED sendVars
    /\ UNCHANGED notSignalVars

(***************************************************************************)
(* Ownership queries: the router asks the SignalChannel, the un-namespaced *)
(* SlackChannel and a namespaced SlackChannel whether they own a ChatId.   *)
(***************************************************************************)
\* Segments ChatIds and namespaces are built from.
JidSegments == {StrSig, StrSlack, StrChannel, StrGroup, <<"c", "i", "t">>,
                <<"C", "I", "T">>, <<"U", "1">>, <<"C", "1">>, <<"+", "1">>, <<>>}

\* ChatId strings of n segments joined by ':'.
RECURSIVE JidsOfSegs(_)
JidsOfSegs(n) ==
    IF n = 1 THEN JidSegments
    ELSE {head \o Colon \o seg : head \in JidsOfSegs(n - 1), seg \in JidSegments}

OwnsJids == UNION {JidsOfSegs(n) : n \in 1..MaxSegs}

\* Values of SLACK_2_NAMESPACE: any non-empty string (the empty one makes the
\* instance un-namespaced).
Namespaces == {<<"c", "i", "t">>, <<"C", "I", "T">>, StrChannel, <<"x">>}

OwnsInit ==
    /\ ownsJidArg = <<>>
    /\ ownsNamespace = <<"c", "i", "t">>
    /\ ownsAnswer = [asked |-> FALSE, signal |-> FALSE, slack |-> FALSE,
                     slackNs |-> FALSE]

\* One ChatId put to the three instances.
AskOwners ==
    /\ ~ownsAnswer.asked
    /\ \E jid \in OwnsJids, ns \in Namespaces :
         /\ ownsJidArg' = jid
         /\ ownsNamespace' = ns
         /\ ownsAnswer' = [asked |-> TRUE,
                           signal |-> SignalOwnsJid(jid),
                           slack |-> SlackOwnsJid(<<>>, jid),
                           slackNs |-> SlackOwnsJid(ns, jid)]
    /\ UNCHANGED notOwnsVars

(***************************************************************************)
(* Inbound events and SlackChannel.sendMessage.                            *)
(***************************************************************************)
\* The identities of the model: the bot's Slack user id (what auth.test
\* returns), a human Slack user, a Slack channel and DM channel, the
\* configured Signal account, another Signal number and a Signal group.
BotUser == <<"U", "B">>
HumanUser == <<"U", "1">>
SlackUsers == {HumanUser, BotUser}
SlackRoom == <<"C", "1">>
DmChannelOf(user) == <<"D">> \o Slice(user, 1)
SignalAccount == <<"+", "0">>
SignalPeer == <<"+", "1">>
SignalGroup == <<"G", "1">>

SigJid(source) == StrSig \o Colon \o source
SigGroupJid(groupId) == StrSig \o Colon \o StrGroup \o Colon \o groupId

\* A callback the channel raised.  `self` is the fact the callback's
\* arguments do not carry: the message was authored by the bot's identity.
OnChatMetadata(via, chatJid) ==
    [cb |-> "metadata", via |-> via, chat_jid |-> chatJid, sender |-> <<>>,
     is_from_me |-> FALSE, self |-> FALSE]
OnMessage(via, chatJid, sender, isFromMe, self) ==
    [cb |-> "message", via |-> via, chat_jid |-> chatJid, sender |-> sender,
     is_from_me |-> isFromMe, self |-> self]

\* Slack `message` events: bot_id set or not, a subtype or none, the user
\* (possibly missing) and the channel type; the channel follows the type.
SlackEvents ==
    [bot_id : BOOLEAN, subtype : BOOLEAN, user : SlackUsers \cup {<<>>},
     channel_type : {"im", "channel"}]

SlackEventChannel(ev) ==
    IF ev.channel_type = "im" THEN DmChannelOf(ev.user) ELSE SlackRoom

\* The listener of setupListeners, for event ev; newContact is what
\* opts.onNewContact does: "absent", "declines" or "registers".
SlackListener(ns, botId, cache, groups, ev, newContact) ==
    IF ev.bot_id \/ ev.subtype \/ ev.user = <<>> \/ ev.user = botId
    THEN [calls |-> <<>>, groups |-> groups, cache |-> cache]
    ELSE LET isDm == ev.channel_type = "im"
             channelId == SlackEventChannel(ev)
             chatJid == IF isDm THEN SlackPrefix(ns) \o ev.user
                                ELSE SlackChannelPrefix(ns) \o channelId
             senderJid == SlackPrefix(ns) \o ev.user
             cache2 == IF isDm THEN [cache EXCEPT ![ev.user] = channelId] ELSE cache
             groups2 == IF chatJid \notin groups /\ newContact = "registers"
                        THEN groups \cup {chatJid} ELSE groups
             self == ev.user = BotUser
         IN  [calls |-> <<OnChatMetadata("slack", chatJid)>> \o
                        (IF chatJid \in groups2
                         THEN <<OnMessage("slack", chatJid, senderJid, FALSE, self)>>
                         ELSE <<>>),
              groups |-> groups2,
              cache |-> cache2]

\* (mutant) a processInbound that delivers without looking at the groups.
ProcessInbound_Unchecked(groups, source, groupId, isFromMeArg) ==
    LET isGroup == groupId # <<>>
        chatJid == IF isGroup THEN SigGroupJid(groupId) ELSE SigJid(source)
    IN  <<OnChatMetadata("signal", chatJid),
          OnMessage("signal", chatJid, source, isFromMeArg, source = SignalAccount)>>

\* SignalChannel.processInbound
ProcessInbound(groups, source, groupId, isFromMeArg) ==
    LET isGroup == groupId # <<>>
        chatJid == IF isGroup THEN SigGroupJid(groupId) ELSE SigJid(source)
        isFromMe == isFromMeArg \/ source = SignalAccount
    IN  <<OnChatMetadata("signal", chatJid)>> \o
        (IF chatJid \in groups
         THEN <<OnMessage("signal", chatJid, source, isFromMe, source = SignalAccount)>>
         ELSE <<>>)

\* Entries of a `receive` result: with an envelope or not, its source
\* (possibly missing), a data message and a sync message (none, direct, group).
SignalEntries ==
    [envelope : BOOLEAN, source : {<<>>, SignalPeer, SignalAccount},
     data : {"none", "dm", "group"}, sync : {"none", "dm", "group"}]

GroupIdOf(kind) == IF kind = "group" THEN SignalGroup ELSE <<>>

\* SignalChannel.handleEntry
HandleEntry(groups, entry) ==
    IF ~entry.envelope THEN <<>>
    ELSE (IF entry.data # "none"
          THEN ProcessInbound(groups, entry.source, GroupIdOf(entry.data), FALSE)
          ELSE <<>>)
         \o
         (IF entry.sync # "none"
          THEN ProcessInbound(groups, SignalAccount, GroupIdOf(entry.sync), TRUE)
          ELSE <<>>)

\* SlackChannel.resolveChannelId; open is how conversations.open ends.
ResolveChannelId(ns, cache, jid, open) ==
    IF StartsWith(jid, SlackChannelPrefix(ns))
    THEN [threw |-> FALSE, channel |-> Slice(jid, Len(SlackChannelPrefix(ns))),
          cache |-> cache]
    ELSE LET userId == Slice(jid, Len(SlackPrefix(ns))) IN
         IF userId \in DOMAIN cache /\ cache[userId] # <<>>
         THEN [threw |-> FALSE, channel |-> cache[userId], cache |-> cache]
         ELSE IF open = "ok" /\ userId \in DOMAIN cache
              THEN [threw |-> FALSE, channel |-> DmChannelOf(userId),
                    cache |-> [cache EXCEPT ![userId] = DmChannelOf(userId)]]
              ELSE [threw |-> TRUE, channel |-> <<>>, cache |-> cache]

\* SlackChannel.sendMessage: resolveChannelId is outside the try block, and
\* the catch block rethrows.
SlackSendResult(resolved, post) ==
    IF resolved.threw THEN "raised"
    ELSE IF post = "rejects" THEN "raised"
    ELSE "returned"

\* The ChatIds the channels of this host produce.
KnownChats(ns) ==
    {SlackPrefix(ns) \o HumanUser, SlackPrefix(ns) \o BotUser,
     SlackChannelPrefix(ns) \o SlackRoom,
     SigJid(SignalPeer), SigJid(SignalAccount), SigGroupJid(SignalGroup)}

NoSlackSend == [jid |-> <<>>, result |-> "none", channel |-> <<>>]

ChannelInit(ns) ==
    /\ slackNs = ns
    /\ slackStarted = FALSE
    /\ slackAuthPending = FALSE
    /\ slackConnected = FALSE
    /\ botUserId = <<>>
    /\ dmChannelCache = [u \in SlackUsers |-> <<>>]
    /\ slackLast = NoSlackSend
    /\ registered = {}
    /\ lastCalls = <<>>

\* SlackChannel.connect: app.start() resolves (or rejects, and connect throws).
SlackConnectStart ==
    /\ ~slackStarted
    /\ \E startOk \in BOOLEAN :
         /\ slackStarted' = startOk
         /\ slackAuthPending' = startOk
    /\ UNCHANGED <<slackNs, slackConnected, botUserId, dmChannelCache, slackLast,
                   registered, lastCalls>>
    /\ UNCHANGED notChannelVars

\* SlackChannel.connect: auth.test answers; a failure is logged and leaves
\* botUserId as it was.
SlackConnectFinish ==
    /\ slackAuthPending
    /\ slackAuthPending' = FALSE
    /\ \E authOk \in BOOLEAN :
         botUserId' = IF authOk THEN BotUser ELSE botUserId
    /\ slackConnected' = TRUE
    /\ UNCHANGED <<slackNs, slackStarted, dmChannelCache, slackLast, registered,
                   lastCalls>>
    /\ UNCHANGED notChannelVars

\* SlackChannel.disconnect
SlackDisconnect ==
    /\ slackStarted /\ ~slackAuthPending
    /\ slackConnected' = FALSE
    /\ slackStarted' = FALSE
    /\ UNCHANGED <<slackNs, slackAuthPending, botUserId, dmChannelCache, slackLast,
                   registered, lastCalls>>
    /\ UNCHANGED notChannelVars

\* A Slack `message` event reaches the listener.
SlackEvent ==
    /\ slackStarted
    /\ \E ev \in SlackEvents, newContact \in {"absent", "declines", "registers"} :
         LET r == SlackListener(slackNs, botUserId, dmChannelCache, registered,
                                ev, newContact) IN
         /\ Cardinality(r.groups) <= MaxRegistered
         /\ lastCalls' = r.calls
         /\ registered' = r.groups
         /\ dmChannelCache' = r.cache
    /\ slackLast' = NoSlackSend
    /\ UNCHANGED <<slackNs, slackStarted, slackAuthPending, slackConnected,
                   botUserId>>
    /\ UNCHANGED notChannelVars

\* poll() hands one entry of a `receive` result to handleEntry.
SignalEntry ==
    /\ \E entry \in SignalEntries :
         lastCalls' = HandleEntry(registered, entry)
    /\ slackLast' = NoSlackSend
    /\ UNCHANGED <<slackNs, slackStarted, slackAuthPending, slackConnected,
                   botUserId, dmChannelCache, registered>>
    /\ UNCHANGED notChannelVars

\* The host registers a conversation.
RegisterGroup ==
    /\ Cardinality(registered) < MaxRegistered
    /\ \E jid \in KnownChats(slackNs) \ registered :
         registered' = registered \cup {jid}
    /\ UNCHANGED <<slackNs, slackStarted, slackAuthPending, slackConnected,
                   botUserId, dmChannelCache, slackLast, lastCalls>>
    /\ UNCHANGED notChannelVars

\* SlackChannel.sendMessage(jid, text), whatever `connected` is.
SlackSendMessage ==
    /\ \E jid \in {j \in KnownChats(slackNs) : SlackOwnsJid(slackNs, j)},
          open \in {"ok", "no_id", "rejects"}, post \in {"ok", "rejects"} :
         LET resolved == ResolveChannelId(slackNs, dmChannelCache, jid, open)
             result == SlackSendResult(resolved, post) IN
         /\ dmChannelCache' = resolved.cache
         /\ slackLast' = [jid |-> jid, result |-> result,
                          channel |-> IF ~resolved.threw /\ post = "ok"
                                      THEN resolved.channel ELSE <<>>]
    /\ lastCalls' = <<>>
    /\ UNCHANGED <<slackNs, slackStarted, slackAuthPending, slackConnected,
                   botUserId, registered>>
    /\ UNCHANGED notChannelVars

(***************************************************************************)
(* The voice HTTP endpoint: the request handler of startVoiceApi.          *)
(***************************************************************************)
StrBearer == <<"B", "e", "a", "r", "e", "r", " ">>
StrBasic == <<"B", "a", "s", "i", "c", " ">>

\* Values of VOICE_API_TOKEN: unset (the default, the empty string) or set.
GoodToken == <<"t", "k">>
VoiceTokens == {<<>>, GoodToken}

\* Authorization headers: absent, or one of these values.
AuthValues == {<<>>, StrBearer, StrBearer \o GoodToken, StrBearer \o <<"n", "o">>,
               StrBasic \o GoodToken, GoodToken,
               <<"b", "e", "a", "r", "e", "r", " ">> \o GoodToken}
AuthHeaders == {[present |-> FALSE, value |-> <<>>]} \cup
               {[present |-> TRUE, value |-> v] : v \in AuthValues}

\* Requests: method, req.url (path and query), Authorization header and the
\* body: a JSON object with an input string, one without, the JSON text
\* null, text that is not JSON, or more than MAX_BODY bytes.
VoiceRequests ==
    [method : {"GET", "POST", "DELETE"},
     url : [pathname : {"/health", "/api/run", "/api/other", "/"},
            search : {"", "?probe=1"}],
     auth : AuthHeaders,
     body : {"input", "no_input", "json_null", "not_json", "too_large"}]

\* new URL(req.url, base).pathname: the path without the query.
Pathname(url) == url.pathname

\* req.headers.authorization || ''
AuthHeaderOf(req) == IF req.auth.present THEN req.auth.value ELSE <<>>

\* authHeader.startsWith('Bearer ') ? authHeader.slice(7) : ''
BearerToken(authHeader) ==
    IF StartsWith(authHeader, StrBearer) THEN Slice(authHeader, 7) ELSE <<>>

\* (mutant) the auth check placed ahead of the health check.
VoiceRoute_AuthFirst(req, configured) ==
    IF BearerToken(AuthHeaderOf(req)) # configured THEN "unauthorized"
    ELSE IF req.method = "GET" /\ Pathname(req.url) = "/health" THEN "health"
    ELSE IF req.method = "POST" /\ Pathname(req.url) = "/api/run" THEN "run"
    ELSE "not_found"

\* (mutant) the run route matched on the path alone, whatever the method.
VoiceRoute_PathOnly(req, configured) ==
    IF req.method = "GET" /\ Pathname(req.url) = "/health" THEN "health"
    ELSE IF BearerToken(AuthHeaderOf(req)) # configured THEN "unauthorized"
    ELSE IF Pathname(req.url) = "/api/run" THEN "run"
    ELSE "not_found"

\* The handler's dispatch: health, then the auth check, then the run route.
VoiceRoute(req, configured) ==
    IF req.method = "GET" /\ Pathname(req.url) = "/health" THEN "health"
    ELSE IF BearerToken(AuthHeaderOf(req)) # configured THEN "unauthorized"
    ELSE IF req.method = "POST" /\ Pathname(req.url) = "/api/run" THEN "run"
    ELSE "not_found"

\* POST /api/run: readBody rejects an oversized body, JSON.parse a body
\* that is not JSON, handleRun's destructuring a null body (all answered
\* 400); handleRun answers a missing input without a worker and runs a
\* worker otherwise (both answered 200).
RunResponse(body) ==
    CASE body \in {"too_large", "not_json", "json_null"} ->
            [status |-> 400, worker |-> FALSE]
      [] body = "no_input" -> [status |-> 200, worker |-> FALSE]
      [] OTHER -> [status |-> 200, worker |-> TRUE]

\* The response by route.
VoiceResponse(route, body) ==
    CASE route = "health" -> [status |-> 200, worker |-> FALSE]
      [] route = "unauthorized" -> [status |-> 401, worker |-> FALSE]
      [] route = "run" -> RunResponse(body)
      [] OTHER -> [status |-> 404, worker |-> FALSE]

NoRequest == [served |-> FALSE,
              req |-> [method |-> "GET", url |-> [pathname |-> "/", search |-> ""],
                       auth |-> [present |-> FALSE, value |-> <<>>],
                       body |-> "no_input"],
              status |-> 0, worker |-> FALSE]

VoiceInit(configured) ==
    /\ voiceToken = configured
    /\ lastRequest = NoRequest

\* One request served by the handler.
VoiceRequest ==
    /\ \E req \in VoiceRequests :
         LET r == VoiceResponse(VoiceRoute(req, voiceToken), req.body) IN
         lastRequest' = [served |-> TRUE, req |-> req, status |-> r.status,
                         worker |-> r.worker]
    /\ UNCHANGED voiceToken
    /\ UNCHANGED notVoiceVars

(***************************************************************************)
(* readBody for a POST /api/run request that passed the auth check: the    *)
(* 'data' events arrive one chunk at a time, then 'end'.                   *)
(***************************************************************************)
MAX_BODY == 1024 * 1024

\* chunk.length of the chunks a client's body arrives in.
ChunkLens == {1, 2, 524288, 1048574, 1048575, 1048576, 1048577}

RECURSIVE SumSeq(_)
SumSeq(q) == IF q = <<>> THEN 0 ELSE Head(q) + SumSeq(Tail(q))

\* (mutant) a cap that already rejects a body of exactly MAX_BODY bytes.
ReadBodyData_Inclusive(size, len) ==
    [size |-> size + len, rejected |-> size + len >= MAX_BODY]

\* The 'data' listener: size += chunk.length; reject when size > MAX_BODY.
ReadBodyData(size, len) ==
    [size |-> size + len, rejected |-> size + len > MAX_BODY]

\* Buffer.concat(chunks).toString(): the text readBody resolves with has
\* the bytes of every kept chunk.
ReadBodyEnd(chunks) == SumSeq(chunks)

\* The shortest body of each kind: `{"input":"x"}`, `1`, `null`, ``.
BodyKinds == {"input", "no_input", "json_null", "not_json"}
MinBodyLen(kind) ==
    CASE kind = "input" -> 13
      [] kind = "no_input" -> 1
      [] kind = "json_null" -> 4
      [] OTHER -> 0

NoAnswer == [sent |-> FALSE, kind |-> "not_json", status |-> 0,
             worker |-> FALSE, read |-> 0]

BodyInit ==
    /\ bodyChunks = <<>>
    /\ bodySize = 0
    /\ bodyReceived = 0
    /\ bodyState = "reading"
    /\ bodyAnswer = NoAnswer

\* One 'data' event.  A rejection settles the promise, destroys the
\* request (no further events) and the handler's catch answers 400.
BodyData ==
    /\ bodyState = "reading"
    /\ Len(bodyChunks) < MaxChunks
    /\ \E len \in ChunkLens :
         LET d == ReadBodyData(bodySize, len)
             r == RunResponse("too_large") IN
         /\ bodySize' = d.size
         /\ bodyReceived' = bodyReceived + len
         /\ IF d.rejected
            THEN /\ bodyState' = "rejected"
                 /\ bodyAnswer' = [sent |-> TRUE, kind |-> "too_large",
                                   status |-> r.status, worker |-> r.worker,
                                   read |-> 0]
                 /\ UNCHANGED bodyChunks
            ELSE /\ bodyChunks' = Append(bodyChunks, len)
                 /\ UNCHANGED <<bodyState, bodyAnswer>>
    /\ UNCHANGED notBodyVars

\* The 'end' event: readBody resolves with the whole text, which is then
\* parsed and handed to handleRun.
BodyEnd ==
    /\ bodyState = "reading"
    /\ \E kind \in BodyKinds :
         LET r == RunResponse(kind) IN
         /\ MinBodyLen(kind) <= ReadBodyEnd(bodyChunks)
         /\ bodyAnswer' = [sent |-> TRUE, kind |-> kind, status |-> r.status,
                           worker |-> r.worker,
                           read |-> ReadBodyEnd(bodyChunks)]
    /\ bodyState' = "resolved"
    /\ UNCHANGED <<bodyChunks, bodySize, bodyReceived>>
    /\ UNCHANGED notBodyVars

(***************************************************************************)
(* Stripping of <internal>...</internal> from a worker output:             *)
(*   raw.replace(/<internal>[\s\S]*?<\/internal>/g, '').trim()             *)
(* An output is written as a sequence of tokens; a token is one of the two *)
(* markers, a piece of text or a line break.  The replacement works on the *)
(* characters.                                                             *)
(***************************************************************************)
OpenTag == <<"<", "i", "n", "t", "e", "r", "n", "a", "l", ">">>
CloseTag == <<"<", "/", "i", "n", "t", "e", "r", "n", "a", "l", ">">>
TextAnswer == <<"H", "e", "r", "e", " ", "i", "s", " ", "t", "h", "e", " ",
                "a", "n", "s", "w", "e", "r", ".">>
TextDebug == <<"d", "e", "b", "u", "g", "=", "4", "2">>
LineBreak == <<"\n">>

Tokens == {"open", "close", "answer", "debug", "nl"}

TokenChars(t) ==
    CASE t = "open" -> OpenTag
      [] t = "close" -> CloseTag
      [] t = "answer" -> TextAnswer
      [] t = "debug" -> TextDebug
      [] OTHER -> LineBreak

\* The characters of an output.
RECURSIVE Flatten(_)
Flatten(toks) ==
    IF toks = <<>> THEN <<>> ELSE TokenChars(Head(toks)) \o Flatten(Tail(toks))

\* For each character of an output, the index of the token it belongs to.
RECURSIVE OriginFrom(_, _)
OriginFrom(toks, i) ==
    IF toks = <<>> THEN <<>>
    ELSE [k \in 1..Len(TokenChars(Head(toks))) |-> i]
         \o OriginFrom(Tail(toks), i + 1)

Origin(toks) == OriginFrom(toks, 1)

\* String.prototype.indexOf(pat, from), 1-based; 0 when there is none.
IndexOf(str, pat, from) ==
    LET hits == {i \in from..(Len(str) - Len(pat) + 1) :
                    SubSeq(str, i, i + Len(pat) - 1) = pat}
    IN IF hits = {} THEN 0
       ELSE CHOOSE i \in hits : \A j \in hits : i <= j

\* The indices of the characters that the global, non-greedy replacement
\* keeps: each match runs from a <internal> to the first </internal> after
\* it, and the search resumes behind the match.
RECURSIVE StripKeep(_, _)
StripKeep(str, from) ==
    LET o == IndexOf(str, OpenTag, from)
        c == IF o = 0 THEN 0 ELSE IndexOf(str, CloseTag, o + Len(OpenTag))
        rest == [k \in 1..(Len(str) - from + 1) |-> from + k - 1]
    IN IF o = 0 \/ c = 0 THEN rest
       ELSE [k \in 1..(o - from) |-> from + k - 1]
            \o StripKeep(str, c + Len(CloseTag))

\* String.prototype.trim on the kept characters.
WhiteSpace == {" ", "\n", "\t"}
TrimKeep(str, keep) ==
    LET Solid(k) == str[keep[k]] \notin WhiteSpace
        n == Len(keep)
    IN IF \A k \in 1..n : ~Solid(k) THEN <<>>
       ELSE LET lo == CHOOSE k \in 1..n :
                          Solid(k) /\ \A j \in 1..(k - 1) : ~Solid(j)
                hi == CHOOSE k \in 1..n :
                          Solid(k) /\ \A j \in (k + 1)..n : ~Solid(j)
            IN SubSeq(keep, lo, hi)

\* raw.replace(...).trim(): the kept indices, and the text.
StripInternalKeep(str) == TrimKeep(str, StripKeep(str, 1))
StripInternal(str) ==
    LET keep == StripInternalKeep(str) IN [k \in 1..Len(keep) |-> str[keep[k]]]

\* Outputs of up to n tokens.
RECURSIVE TokenSeqs(_)
TokenSeqs(n) ==
    IF n = 0 THEN {<<>>}
    ELSE LET shorter == TokenSeqs(n - 1) IN
         shorter \cup {Append(q, t) : q \in {x \in shorter : Len(x) = n - 1},
                                      t \in Tokens}

WorkerTexts == TokenSeqs(MaxTokens)

NoStrip == [done |-> FALSE, delivered |-> FALSE, text |-> <<>>, from |-> {}]

StripInit ==
    /\ stripIn = <<>>
    /\ stripOut = NoStrip

\* One output with a result: `if (output.result && ...)`, the replacement,
\* and `if (text)`: an empty text is not delivered.  `from` keeps the
\* tokens the delivered characters came from.
StripOutput ==
    /\ ~stripOut.done
    /\ \E toks \in WorkerTexts :
       \E raw \in {Flatten(toks)}, origin \in {Origin(toks)} :
         \E keep \in {IF raw = <<>> THEN <<>> ELSE StripInternalKeep(raw)} :
            /\ stripIn' = toks
            /\ stripOut' = [done |-> TRUE, delivered |-> keep # <<>>,
                            text |-> [k \in 1..Len(keep) |-> raw[keep[k]]],
                            from |-> {origin[keep[k]] : k \in 1..Len(keep)}]
    /\ UNCHANGED notStripVars

(***************************************************************************)
(* handleRun: one voice run per accepted POST /api/run request.  Each run  *)
(* builds firstResultPromise, arms the deadline timer and starts a worker  *)
(* for the main folder with runContainerAgent; the worker's outputs, its   *)
(* exit and the timer then race to settle the promise.                     *)
(***************************************************************************)
DEFAULT_TIMEOUT == 300000
MIN_TIMEOUT == 120000
\* The largest delay setTimeout accepts; a larger one is replaced by 1.
TIMEOUT_MAX == 2147483647

\* The two requests that may be in flight together.
Runs == {"r1", "r2"}

\* body.timeout: absent, one of these numbers of milliseconds, or a number
\* above TIMEOUT_MAX (kind "huge": such a number lies outside the integers
\* of the checker and is carried as a tag).
TimeoutValues == {0, 1000, 600000, TIMEOUT_MAX}
Timeouts == {[kind |-> "absent", ms |-> 0], [kind |-> "huge", ms |-> 0]} \cup
            {[kind |-> "ms", ms |-> t] : t \in TimeoutValues}

Max(a, b) == IF a >= b THEN a ELSE b

\* Math.max(timeout || DEFAULT_TIMEOUT, MIN_TIMEOUT)
TimeoutMs(timeout) ==
    IF timeout.kind = "huge" THEN [huge |-> TRUE, ms |-> 0]
    ELSE [huge |-> FALSE,
          ms |-> Max(IF timeout.kind = "ms" /\ timeout.ms # 0
                     THEN timeout.ms ELSE DEFAULT_TIMEOUT,
                     MIN_TIMEOUT)]

\* setTimeout(callback, delay): the delay the runtime arms the timer with.
SetTimeoutDelay(delay) ==
    IF delay.huge \/ delay.ms > TIMEOUT_MAX \/ delay.ms < 1 THEN 1 ELSE delay.ms

\* MAIN_GROUP_FOLDER, the folder of every voice worker (buildVoiceGroup).
MainGroupFolder == "main"

\* Session ids a worker may announce; "" stands for none.
SessionIds == {"s1", "s2"}

\* Results a worker streams (token sequences; <<>> stands for no result).
RunTexts == {<<>>, <<"answer">>, <<"debug">>, <<"open", "debug", "close">>,
             <<"answer", "open", "debug", "close">>}

\* ContainerOutput values.
RunOutputs == [status : {"success", "error"},
               result : RunTexts,
               newSessionId : {""} \cup SessionIds]

\* The result text of an output after the replacement and trim.
OutputText(out) ==
    IF out.result = <<>> THEN <<>> ELSE StripInternal(Flatten(out.result))

\* (mutant) a result branch without the `if (text)` test.
ResultSettles_AnyText(out) == out.result # <<>>

\* `if (output.result && ...) { ...; if (text) {` : the output settles the
\* promise when its stripped text is not empty.
ResultSettles(out) == out.result # <<>> /\ OutputText(out) # <<>>

ErrTimeout == "Voice API timeout"
ErrAgent == "Agent error"
ErrExit == "container exit"

NoResponse == [sent |-> 0, success |-> FALSE, result |-> <<>>, error |-> ""]

IdleRun == [phase |-> "idle", timeout |-> [kind |-> "absent", ms |-> 0],
            timeoutMs |-> [huge |-> FALSE, ms |-> 0], delay |-> 0, resolved |-> FALSE,
            result |-> <<>>, error |-> "", firstResult |-> <<>>,
            timer |-> "none", worker |-> "none", folder |-> "",
            sessionId |-> "", response |-> NoResponse]

NoEvent == [run |-> "", kind |-> "none", text |-> <<>>, newSessionId |-> ""]

VOICE_SESSION_KEY == "voice"

\* (mutant) a callback that keeps the session id of successful outputs only.
SessionAfter_SuccessOnly(out, current) ==
    IF out.newSessionId # "" /\ out.status # "error"
    THEN out.newSessionId ELSE current

\* `if (output.newSessionId) { voiceSessionId = output.newSessionId; ...`
SessionAfter(out, current) ==
    IF out.newSessionId # "" THEN out.newSessionId ELSE current

\* The keys of the sessions table: the voice key and the folder of the main
\* group, under which the sessions of the text channels are kept.
SessionKeys == {VOICE_SESSION_KEY, MainGroupFolder}

\* The id the main group's row holds; no voice output carries it.
MainSessionId == "m1"

\* getSession(key) of the sessions table.
GetSession(store, key) == store[key]

\* (mutant) a write that goes to the row of the main group's folder.
SetSession_FolderKey(store, key, id) ==
    [store EXCEPT ![MainGroupFolder] = id]

\* setSession(key, id) of the sessions table.
SetSession(store, key, id) ==
    [store EXCEPT ![key] = id]

\* loadVoiceSession: `voiceSessionId = getSession(VOICE_SESSION_KEY) ||
\* undefined` ("" stands for undefined and for no row).
LoadVoiceSession(store) == GetSession(store, VOICE_SESSION_KEY)

\* The state after startVoiceApi, with the row `stored` left under the voice
\* key by an earlier life of the process.
RunInit(stored) ==
    /\ runs = [r \in Runs |-> IdleRun]
    /\ sessionStore = [k \in SessionKeys |->
                          IF k = VOICE_SESSION_KEY THEN stored
                          ELSE MainSessionId]
    /\ voiceSessionId = LoadVoiceSession(sessionStore)
    /\ voiceEvent = NoEvent

\* resolve(...) under `if (!resolved) { resolved = true; clearTimeout(timer)`.
Settle(run, result, error, timer) ==
    IF run.resolved THEN run
    ELSE [run EXCEPT !.resolved = TRUE, !.result = result, !.error = error,
                     !.timer = timer]

\* handleRun up to `await firstResultPromise`, for a body with an input.
RunStart(r) ==
    /\ runs[r].phase = "idle"
    /\ \E timeout \in Timeouts :
         runs' = [runs EXCEPT ![r] =
                    [IdleRun EXCEPT !.phase = "pending",
                                    !.timeout = timeout,
                                    !.timeoutMs = TimeoutMs(timeout),
                                    !.delay = SetTimeoutDelay(TimeoutMs(timeout)),
                                    !.timer = "armed",
                                    !.worker = "alive",
                                    !.sessionId = voiceSessionId,
                                    !.folder = MainGroupFolder]]
    /\ voiceEvent' = [run |-> r, kind |-> "start", text |-> <<>>,
                      newSessionId |-> ""]
    /\ UNCHANGED <<voiceSessionId, sessionStore>>
    /\ UNCHANGED notRunVars

\* The deadline timer's callback.
TimerFire(r) ==
    /\ runs[r].timer = "armed"
    /\ runs' = [runs EXCEPT ![r] =
                  [Settle(runs[r], runs[r].firstResult, ErrTimeout, "fired")
                      EXCEPT !.timer = "fired"]]
    /\ voiceEvent' = [run |-> r, kind |-> "timer", text |-> <<>>,
                      newSessionId |-> ""]
    /\ UNCHANGED <<voiceSessionId, sessionStore>>
    /\ UNCHANGED notRunVars

\* The onOutput callback for one streamed output of the worker; a session
\* id it carries is kept in memory and written to the sessions table first.
WorkerOutputOf(r, outputs) ==
    /\ runs[r].worker = "alive"
    /\ \E out \in outputs :
         \E text \in {OutputText(out)} :
           /\ voiceSessionId' = SessionAfter(out, voiceSessionId)
           /\ sessionStore' =
                 IF out.newSessionId # ""
                 THEN SetSession(sessionStore, VOICE_SESSION_KEY,
                                 out.newSessionId)
                 ELSE sessionStore
           /\ runs' = [runs EXCEPT ![r] =
                 IF out.status = "error"
                 THEN Settle(runs[r], <<>>, ErrAgent, "cleared")
                 ELSE IF ResultSettles(out) /\ ~runs[r].resolved
                 THEN [Settle(runs[r], text, "", "cleared")
                          EXCEPT !.firstResult = text]
                 ELSE runs[r]]
           /\ voiceEvent' = [run |-> r,
                             kind |-> IF out.status = "error" THEN "error"
                                      ELSE "result",
                             text |-> IF out.status = "error" THEN <<>> ELSE text,
                             newSessionId |-> out.newSessionId]
    /\ UNCHANGED notRunVars

WorkerOutput(r) == WorkerOutputOf(r, RunOutputs)

\* The worker ends: runContainerAgent's promise resolves (nothing is done)
\* or rejects (the .catch handler).
WorkerExit(r) ==
    /\ runs[r].worker = "alive"
    /\ \E rejected \in BOOLEAN :
         /\ runs' = [runs EXCEPT ![r] =
               IF rejected
               THEN [Settle(runs[r], runs[r].firstResult, ErrExit, "cleared")
                        EXCEPT !.worker = "failed"]
               ELSE [runs[r] EXCEPT !.worker = "exited"]]
         /\ voiceEvent' = [run |-> r,
                           kind |-> IF rejected THEN "exit_rejected" ELSE "exit",
                           text |-> <<>>, newSessionId |-> ""]
    /\ UNCHANGED <<voiceSessionId, sessionStore>>
    /\ UNCHANGED notRunVars

\* `await firstResultPromise` resumes: handleRun returns and the request
\* handler sends the response.
RunAnswer(r) ==
    /\ runs[r].phase = "pending"
    /\ runs[r].resolved
    /\ runs' = [runs EXCEPT ![r] =
          [runs[r] EXCEPT !.phase = "answered",
                          !.response = [sent |-> runs[r].response.sent + 1,
                                        success |-> runs[r].error = "",
                                        result |-> runs[r].result,
                                        error |-> runs[r].error]]]
    /\ voiceEvent' = [run |-> r, kind |-> "answer", text |-> <<>>,
                      newSessionId |-> ""]
    /\ UNCHANGED <<voiceSessionId, sessionStore>>
    /\ UNCHANGED notRunVars

(***************************************************************************)
(* Tool IPC: processBookmarkIpc (bookmarks.ts) and processRemindersIpc     *)
(* (reminders.ts) for one request file each, and the worker that polls for *)
(* the bookmark response.  A path is a sequence of segments followed by    *)
(* the suffixes appended to its last segment.                              *)
(***************************************************************************)
DataIpcDir == <<"ipc", "main">>
BookmarksDir == DataIpcDir \o <<"bookmarks">>
RemindersDir == DataIpcDir \o <<"reminders">>

Path(segs) == [segs |-> segs, ext |-> <<>>]

\* path.dirname
Dirname(p) == SubSeq(p.segs, 1, Len(p.segs) - 1)

\* path.join(dir, name): the segments of both, normalised ("." dropped,
\* ".." removes the segment before it).
RECURSIVE Normalize(_, _)
Normalize(done, todo) ==
    IF todo = <<>> THEN done
    ELSE IF Head(todo) = "." THEN Normalize(done, Tail(todo))
    ELSE IF Head(todo) = ".." /\ done # <<>>
         THEN Normalize(SubSeq(done, 1, Len(done) - 1), Tail(todo))
    ELSE Normalize(Append(done, Head(todo)), Tail(todo))

PathJoin(dir, name) == Path(Normalize(<<>>, dir \o name))

\* `${respPath}.tmp`
TempPath(p) == [p EXCEPT !.ext = Append(p.ext, ".tmp")]

BookmarkRequestPath == Path(BookmarksDir \o <<"req.json">>)
RemindersRequestPath == Path(RemindersDir \o <<"req.json">>)

\* path.join(DATA_DIR, "ipc", groupFolder) + "reminders_snapshot.json"
SnapshotPathOf(groupFolder) ==
    PathJoin(<<"ipc", groupFolder>>, <<"reminders_snapshot.json">>)
SnapshotPath == SnapshotPathOf("main")

\* The conversations' folders, and their snapshot files.
GroupFolders == {"main", "other"}
SnapshotPaths == {SnapshotPathOf(f) : f \in GroupFolders}

\* request.responseFile, split at the separators; <<>> when absent.
ResponseNames == {<<"resp.json">>, <<".", "resp.json">>,
                  <<"..", "tasks", "resp.json">>}

BookmarkOperations == {"bookmark_url", "bookmark_health", "bookmark_recent"}
\* (mutant) every operation of the bridge taken for a mutation.
ReminderMutations_All ==
    {"create_reminder", "complete_reminder", "update_reminder", "list_reminders"}

ReminderMutations == {"create_reminder", "complete_reminder", "update_reminder"}

\* The content of a request file: text that is not JSON, the JSON text
\* null, or a request object.
InvalidJson == [json |-> "invalid", operation |-> "", responseFile |-> <<>>]
JsonNull == [json |-> "null", operation |-> "", responseFile |-> <<>>]
BookmarkRaws ==
    {InvalidJson, JsonNull} \cup
    [json : {"object"},
     operation : BookmarkOperations \cup {"bookmark_purge"},
     responseFile : {<<>>} \cup ResponseNames]
ReminderRaws ==
    {InvalidJson, JsonNull} \cup
    [json : {"object"},
     operation : {"list_reminders", "create_reminder"},
     responseFile : {<<>>}]

\* (mutant) a parser that reads any text as a health request.
JsonParse_Lenient(raw) ==
    IF raw.json = "invalid"
    THEN [threw |-> FALSE,
          value |-> [json |-> "object", operation |-> "bookmark_health",
                     responseFile |-> <<>>]]
    ELSE [threw |-> FALSE, value |-> raw]

\* JSON.parse(raw)
JsonParse(raw) == [threw |-> raw.json = "invalid", value |-> raw]

\* How a call to the relay or to the bridge may go.
CallOutcomes == {"ok", "unreachable", "timeout", "unparsable"}

NoResult == [set |-> FALSE, error |-> FALSE, text |-> ""]
RelayOk == [set |-> TRUE, error |-> FALSE, text |-> "relay answer"]
RelayError == [set |-> TRUE, error |-> TRUE, text |-> "Bookmark relay error"]
UnknownOperation ==
    [set |-> TRUE, error |-> TRUE, text |-> "Unknown bookmark operation"]
BridgeOk == [set |-> TRUE, error |-> FALSE, text |-> "bridge answer"]
BridgeError == [set |-> TRUE, error |-> TRUE, text |-> "Bridge call failed"]
InvalidJsonError ==
    [set |-> TRUE, error |-> TRUE, text |-> "Invalid JSON in IPC file"]

\* (mutant) a relay client that lets the failure of fetch escape.
RelayCall_Rethrow(outcome) ==
    [raised |-> outcome # "ok",
     result |-> IF outcome = "ok" THEN RelayOk ELSE NoResult]

\* bookmarkUrl, getBookmarkHealth, getRecentBookmarks: one fetch inside
\* try/catch; resp.json() is inside the try as well.
RelayCall(outcome) ==
    [raised |-> FALSE,
     result |-> IF outcome = "ok" THEN RelayOk ELSE RelayError]

\* callBridge: execFileSync and JSON.parse inside one try/catch.
CallBridge(outcome) == IF outcome = "ok" THEN BridgeOk ELSE BridgeError

\* (mutant) the response written under its final name at once.
ResponseWritePath_Direct(respPath) == respPath

\* fs.writeFileSync(tempPath, ...): the file the body is written to.
ResponseWritePath(respPath) == TempPath(respPath)

\* The response path of a request: path.join(path.dirname(ipcFilePath),
\* request.responseFile).
ResponsePath(ipcFilePath, responseFile) ==
    PathJoin(Dirname(ipcFilePath), responseFile)

\* The files of the model.
IpcPaths ==
    {BookmarkRequestPath, RemindersRequestPath} \cup SnapshotPaths \cup
    {ResponsePath(BookmarkRequestPath, n) : n \in ResponseNames} \cup
    {TempPath(ResponsePath(BookmarkRequestPath, n)) : n \in ResponseNames}

Absent == [state |-> "absent", body |-> NoResult]
EmptyFile == [state |-> "empty", body |-> NoResult]
PartialFile == [state |-> "partial", body |-> NoResult]
FullFile(body) == [state |-> "full", body |-> body]
RequestFile == [state |-> "request", body |-> NoResult]

IdleBookmark == [pc |-> "idle", request |-> InvalidJson, result |-> NoResult,
                 relayCalls |-> 0, raised |-> FALSE, outcome |-> "none"]
IdleReminders == [done |-> FALSE, result |-> NoResult, bridgeLog |-> <<>>,
                  outcome |-> "none", raised |-> FALSE,
                  groupFolder |-> "", snapOutcome |-> "none"]

IpcInit(b, r) ==
    /\ bookmarkRaw = b
    /\ remindersRaw = r
    /\ ipcFiles = [p \in IpcPaths |->
                     IF p \in {BookmarkRequestPath, RemindersRequestPath}
                     THEN RequestFile ELSE Absent]
    /\ bookmarkIpc = IdleBookmark
    /\ remindersIpc = IdleReminders
    /\ workerRead = Absent

\* processBookmarkIpc up to its first await: read, parse, dispatch.  Text
\* that is not JSON ends the call; `request.operation` of null throws; an
\* unknown operation goes on to the response without a relay call.
BookmarkIpcStart ==
    /\ bookmarkIpc.pc = "idle"
    /\ LET parsed == JsonParse(bookmarkRaw) IN
       bookmarkIpc' =
          IF parsed.threw THEN [bookmarkIpc EXCEPT !.pc = "skipped"]
          ELSE IF parsed.value.json = "null"
          THEN [bookmarkIpc EXCEPT !.pc = "done", !.raised = TRUE]
          ELSE IF parsed.value.operation \in BookmarkOperations
          THEN [bookmarkIpc EXCEPT !.pc = "relay", !.request = parsed.value,
                                   !.relayCalls = 1]
          ELSE [bookmarkIpc EXCEPT
                   !.pc = IF parsed.value.responseFile = <<>>
                          THEN "done" ELSE "write",
                   !.request = parsed.value,
                   !.result = UnknownOperation]
    /\ UNCHANGED <<bookmarkRaw, remindersRaw, ipcFiles, remindersIpc, workerRead>>
    /\ UNCHANGED notIpcVars

\* The relay call settles and processBookmarkIpc resumes.
BookmarkRelayDone ==
    /\ bookmarkIpc.pc = "relay"
    /\ \E outcome \in CallOutcomes :
         LET call == RelayCall(outcome) IN
         bookmarkIpc' =
            IF call.raised
            THEN [bookmarkIpc EXCEPT !.pc = "done", !.raised = TRUE,
                                     !.outcome = outcome]
            ELSE [bookmarkIpc EXCEPT
                     !.pc = IF bookmarkIpc.request.responseFile = <<>>
                            THEN "done" ELSE "write",
                     !.result = call.result,
                     !.outcome = outcome]
    /\ UNCHANGED <<bookmarkRaw, remindersRaw, ipcFiles, remindersIpc, workerRead>>
    /\ UNCHANGED notIpcVars

\* The file writeFileSync writes the response to.
BookmarkWritePath ==
    ResponseWritePath(ResponsePath(BookmarkRequestPath,
                                   bookmarkIpc.request.responseFile))

\* fs.writeFileSync, as another process sees it: the file is created
\* empty, may hold a part of the body, then holds all of it.
BookmarkRespOpen ==
    /\ bookmarkIpc.pc = "write"
    /\ ipcFiles' = [ipcFiles EXCEPT ![BookmarkWritePath] = EmptyFile]
    /\ bookmarkIpc' = [bookmarkIpc EXCEPT !.pc = "opened"]
    /\ UNCHANGED <<bookmarkRaw, remindersRaw, remindersIpc, workerRead>>
    /\ UNCHANGED notIpcVars

BookmarkRespWrite ==
    /\ bookmarkIpc.pc = "opened"
    /\ \/ /\ ipcFiles[BookmarkWritePath] = EmptyFile
          /\ ipcFiles' = [ipcFiles EXCEPT ![BookmarkWritePath] = PartialFile]
          /\ UNCHANGED bookmarkIpc
       \/ /\ ipcFiles' = [ipcFiles EXCEPT ![BookmarkWritePath] =
                             FullFile(bookmarkIpc.result)]
          /\ bookmarkIpc' = [bookmarkIpc EXCEPT !.pc = "written"]
    /\ UNCHANGED <<bookmarkRaw, remindersRaw, remindersIpc, workerRead>>
    /\ UNCHANGED notIpcVars

\* fs.renameSync(tempPath, respPath)
BookmarkRespRename ==
    /\ bookmarkIpc.pc = "written"
    /\ LET from == BookmarkWritePath
           to == ResponsePath(BookmarkRequestPath,
                              bookmarkIpc.request.responseFile)
       IN ipcFiles' = IF from = to THEN ipcFiles
                      ELSE [ipcFiles EXCEPT ![to] = ipcFiles[from],
                                            ![from] = Absent]
    /\ bookmarkIpc' = [bookmarkIpc EXCEPT !.pc = "done"]
    /\ UNCHANGED <<bookmarkRaw, remindersRaw, remindersIpc, workerRead>>
    /\ UNCHANGED notIpcVars

\* The worker looks for the response under the name it asked for and
\* reads it when it is there.
WorkerPoll ==
    /\ bookmarkRaw.responseFile # <<>>
    /\ LET p == ResponsePath(BookmarkRequestPath, bookmarkRaw.responseFile) IN
       /\ ipcFiles[p].state # "absent"
       /\ workerRead' = ipcFiles[p]
    /\ UNCHANGED <<bookmarkRaw, remindersRaw, ipcFiles, bookmarkIpc, remindersIpc>>
    /\ UNCHANGED notIpcVars

\* writeRemindersSnapshot: one bridge call; the snapshot file is written
\* when the bridge answered without an error.
WriteRemindersSnapshot(files, groupFolder, outcome) ==
    IF CallBridge(outcome).error THEN files
    ELSE [files EXCEPT ![SnapshotPathOf(groupFolder)] =
                          FullFile(CallBridge(outcome))]

\* processRemindersIpc(ipcFilePath, groupFolder): read, parse, one bridge
\* call, and a snapshot refresh for groupFolder after a mutation.
RemindersIpc ==
    /\ ~remindersIpc.done
    /\ \E groupFolder \in GroupFolders,
          outcome \in CallOutcomes, snapOutcome \in CallOutcomes :
         LET parsed == JsonParse(remindersRaw)
             mutation == parsed.value.operation \in ReminderMutations
             called == [remindersIpc EXCEPT !.done = TRUE,
                                           !.groupFolder = groupFolder]
         IN IF parsed.threw
            THEN /\ remindersIpc' = [called EXCEPT !.result = InvalidJsonError]
                 /\ UNCHANGED ipcFiles
            ELSE IF parsed.value.json = "null"
            THEN /\ remindersIpc' = [called EXCEPT !.raised = TRUE]
                 /\ UNCHANGED ipcFiles
            ELSE /\ remindersIpc' =
                       [called EXCEPT
                          !.result = CallBridge(outcome),
                          !.outcome = outcome,
                          !.snapOutcome = IF mutation THEN snapOutcome ELSE "none",
                          !.bridgeLog =
                              IF mutation
                              THEN <<parsed.value.operation, "snapshot">>
                              ELSE <<parsed.value.operation>>]
                 /\ ipcFiles' = IF mutation
                                THEN WriteRemindersSnapshot(ipcFiles, groupFolder,
                                                            snapOutcome)
                                ELSE ipcFiles
    /\ UNCHANGED <<bookmarkRaw, remindersRaw, bookmarkIpc, workerRead>>
    /\ UNCHANGED notIpcVars

(***************************************************************************)
(* writeRemindersSnapshot as the worker sees it.  The worker is another    *)
(* process that reads reminders_snapshot.json of its conversation; the     *)
(* host writes the file under its final name with fs.writeFileSync, which  *)
(* opens it with truncation and then writes the body.                      *)
(***************************************************************************)
IdleSnapshotWrite == [pc |-> "idle", groupFolder |-> "", body |-> NoResult,
                      outcome |-> "none"]
NothingRead == [groupFolder |-> "", file |-> Absent]

SnapshotInit ==
    /\ snapshotWrite = IdleSnapshotWrite
    /\ snapshotRead = NothingRead

\* writeRemindersSnapshot(groupFolder) up to the open of the file: the
\* bridge call, the return on an error, and the open that truncates.
SnapshotWriteStart ==
    /\ snapshotWrite.pc = "idle"
    /\ \E groupFolder \in GroupFolders, outcome \in CallOutcomes :
         LET snapshot == CallBridge(outcome) IN
         IF snapshot.error
         THEN /\ snapshotWrite' = [IdleSnapshotWrite EXCEPT
                                      !.groupFolder = groupFolder,
                                      !.outcome = outcome]
              /\ UNCHANGED ipcFiles
         ELSE /\ snapshotWrite' = [pc |-> "opened", groupFolder |-> groupFolder,
                                   body |-> snapshot, outcome |-> outcome]
              /\ ipcFiles' = [ipcFiles EXCEPT
                                ![SnapshotPathOf(groupFolder)] = EmptyFile]
    /\ UNCHANGED <<bookmarkRaw, remindersRaw, bookmarkIpc, remindersIpc,
                   workerRead, snapshotRead>>
    /\ UNCHANGED notIpcSnapshotVars

\* The writes of fs.writeFileSync: a part of the body, or all of it.
SnapshotWriteData ==
    /\ snapshotWrite.pc = "opened"
    /\ LET p == SnapshotPathOf(snapshotWrite.groupFolder) IN
       \/ /\ ipcFiles[p] = EmptyFile
          /\ ipcFiles' = [ipcFiles EXCEPT ![p] = PartialFile]
          /\ UNCHANGED snapshotWrite
       \/ /\ ipcFiles' = [ipcFiles EXCEPT ![p] = FullFile(snapshotWrite.body)]
          /\ snapshotWrite' = [snapshotWrite EXCEPT !.pc = "idle"]
    /\ UNCHANGED <<bookmarkRaw, remindersRaw, bookmarkIpc, remindersIpc,
                   workerRead, snapshotRead>>
    /\ UNCHANGED notIpcSnapshotVars

\* The worker reads the snapshot of a conversation when the file is there.
SnapshotRead ==
    /\ \E groupFolder \in GroupFolders :
         /\ ipcFiles[SnapshotPathOf(groupFolder)].state # "absent"
         /\ snapshotRead' = [groupFolder |-> groupFolder,
                             file |-> ipcFiles[SnapshotPathOf(groupFolder)]]
    /\ UNCHANGED <<snapshotWrite, ipcVars>>
    /\ UNCHANGED notIpcSnapshotVars

(***************************************************************************)
(* The mail-to-bookmark intake: startEmailIntakeLoop and pollEmailIntake.  *)
(* A poll is a chain of awaits: the list call, then per message the get    *)
(* call, one relay call per URL and the label call.  The mailbox holds two *)
(* unprocessed messages; the label is put on a thread.                     *)
(***************************************************************************)
MailMessages == {"m1", "m2"}
MailOrder == <<"m1", "m2">>
MailThreads == {"t1", "t2"}

\* extractUrls(bodyText) of each message.
UrlsOf(m) == IF m = "m1" THEN <<"u1", "u2">> ELSE <<"u3">>

\* The polls that may be in progress together.
PollSlots == {"p1", "p2"}

\* How a call to the mail CLI may go: callGog rejects (exit status,
\* timeout), or resolves with text that JSON.parse accepts or not; "odd"
\* is JSON of another shape (a list that is no array, a detail whose body
\* is no string).
GogOutcomes == {"ok", "failed", "unparsable", "odd"}

\* How a call to the relay may go: "error_body" is an answer whose JSON
\* carries an error field.
RelayOutcomes == {"ok", "error_body", "unreachable", "timeout", "unparsable"}

\* bookmarkViaRelay: true when fetch and resp.json() went through, whatever
\* the answer holds; false from the catch block.
BookmarkViaRelay(outcome) == outcome \in {"ok", "error_body"}

\* (mutant) a loop whose callbacks let the rejection of a poll escape.
LoopCatches_Nothing == FALSE

\* startEmailIntakeLoop wraps each `await pollEmailIntake()` in try/catch.
LoopCatches == TRUE

IdlePoll == [pc |-> "idle", batch |-> <<>>, i |-> 0, j |-> 0,
             afterFailure |-> FALSE, initial |-> FALSE]

\* The state before the first startEmailIntakeLoop: `let running = false`,
\* no timer, no initial run; the setting is EMAIL_INTAKE_ENABLED.
NewLoop(enabled) ==
    [running |-> FALSE, timers |-> 0, initialRuns |-> 0, ensured |-> FALSE,
     hostRaised |-> FALSE, pollFailed |-> FALSE,
     enabled |-> enabled, lastStart |-> "none"]

EmailInitWith(threadOf, enabled) ==
    /\ mailThreadOf = threadOf
    /\ mailLabeled = {}
    /\ mailBookmarked = {}
    /\ emailPolls = [p \in PollSlots |-> IdlePoll]
    /\ emailLoop = NewLoop(enabled)

EmailInit(threadOf) == EmailInitWith(threadOf, TRUE)

\* The query `from:<filter> -label:nanoclaw-processed`: the messages that
\* carry no label, in mailbox order.
RECURSIVE Unlabeled(_, _)
Unlabeled(order, labeled) ==
    IF order = <<>> THEN <<>>
    ELSE IF Head(order) \in labeled THEN Unlabeled(Tail(order), labeled)
    ELSE <<Head(order)>> \o Unlabeled(Tail(order), labeled)

\* `gmail thread modify <threadId> --add <label> --remove INBOX`: every
\* message of the thread gets the label.
LabelThread(labeled, threadOf, t) ==
    labeled \cup {m \in MailMessages : threadOf[m] = t}

\* The for loop moves to its next message, or the poll returns.
NextMessage(poll) ==
    IF poll.i < Len(poll.batch)
    THEN [poll EXCEPT !.pc = "get", !.i = poll.i + 1, !.j = 0]
    ELSE IdlePoll

\* A poll ended by a rejection of pollEmailIntake: the loop's catch logs
\* it, or the rejection reaches the host.
PollRejected(loop) ==
    [loop EXCEPT !.pollFailed = TRUE,
                 !.hostRaised = loop.hostRaised \/ ~LoopCatches]

\* (mutant) a start that never finds the loop running.
AlreadyRunning_Never(loop) == FALSE

\* `if (running) { ...; return; }`
AlreadyRunning(loop) == loop.running

\* startEmailIntakeLoop: returns when the intake is disabled or the loop
\* runs already; else sets running, starts the initial run (the label is
\* ensured first) and arms the interval timer.
StartEmailIntakeLoop ==
    /\ IF ~emailLoop.enabled
       THEN /\ emailLoop' = [emailLoop EXCEPT !.lastStart = "disabled"]
            /\ UNCHANGED emailPolls
       ELSE IF AlreadyRunning(emailLoop)
       THEN /\ emailLoop' = [emailLoop EXCEPT !.lastStart = "duplicate"]
            /\ UNCHANGED emailPolls
       ELSE /\ emailLoop' = [emailLoop EXCEPT
                                !.running = TRUE,
                                !.timers = emailLoop.timers + 1,
                                !.initialRuns = emailLoop.initialRuns + 1,
                                !.lastStart = "started"]
            /\ emailPolls' = [emailPolls EXCEPT !["p1"] =
                                 [IdlePoll EXCEPT !.pc = "ensure",
                                                  !.initial = TRUE]]
    /\ UNCHANGED <<mailThreadOf, mailLabeled, mailBookmarked>>
    /\ UNCHANGED notEmailVars

\* ensureEmailLabel settles (it catches its own failure); the initial
\* pollEmailIntake starts with the list call.
EnsureLabelDone(p) ==
    /\ emailPolls[p].pc = "ensure"
    /\ emailPolls' = [emailPolls EXCEPT ![p].pc = "list"]
    /\ emailLoop' = [emailLoop EXCEPT !.ensured = TRUE]
    /\ UNCHANGED <<mailThreadOf, mailLabeled, mailBookmarked>>
    /\ UNCHANGED notEmailVars

\* The interval timer fires: its callback calls pollEmailIntake.
IntervalTick(p) ==
    /\ emailLoop.timers > 0
    /\ emailPolls[p].pc = "idle"
    /\ emailPolls' = [emailPolls EXCEPT ![p] =
                         [IdlePoll EXCEPT !.pc = "list",
                                          !.afterFailure = emailLoop.pollFailed]]
    /\ UNCHANGED <<mailThreadOf, mailLabeled, mailBookmarked, emailLoop>>
    /\ UNCHANGED notEmailVars

\* The list call settles.  A failure or text that is no JSON ends the poll
\* in the catch block; a result that is no array or is empty ends it too.
ListDone(p) ==
    /\ emailPolls[p].pc = "list"
    /\ \E outcome \in GogOutcomes :
         LET batch == Unlabeled(MailOrder, mailLabeled) IN
         /\ emailPolls' = [emailPolls EXCEPT ![p] =
               IF outcome = "ok" /\ batch # <<>>
               THEN [emailPolls[p] EXCEPT !.pc = "get", !.batch = batch, !.i = 1]
               ELSE IdlePoll]
         /\ emailLoop' = IF outcome \in {"failed", "unparsable"}
                         THEN [emailLoop EXCEPT !.pollFailed = TRUE]
                         ELSE emailLoop
    /\ UNCHANGED <<mailThreadOf, mailLabeled, mailBookmarked>>
    /\ UNCHANGED notEmailVars

\* The get call of the current message settles.  A failure skips the
\* message; a body that is no string makes extractUrls throw outside the
\* try block, which rejects pollEmailIntake; a message without URLs goes
\* to the label call.
GetDone(p) ==
    /\ emailPolls[p].pc = "get"
    /\ \E outcome \in GogOutcomes :
         LET poll == emailPolls[p]
             urls == UrlsOf(poll.batch[poll.i])
         IN /\ emailPolls' = [emailPolls EXCEPT ![p] =
                  CASE outcome = "ok" ->
                          IF urls = <<>> THEN [poll EXCEPT !.pc = "label"]
                          ELSE [poll EXCEPT !.pc = "relay", !.j = 1]
                    [] outcome = "odd" -> IdlePoll
                    [] OTHER -> NextMessage(poll)]
            /\ emailLoop' =
                  CASE outcome = "odd" -> PollRejected(emailLoop)
                    [] outcome = "ok" -> emailLoop
                    [] OTHER -> [emailLoop EXCEPT !.pollFailed = TRUE]
    /\ UNCHANGED <<mailThreadOf, mailLabeled, mailBookmarked>>
    /\ UNCHANGED notEmailVars

\* The relay call for the current URL settles.  false breaks the loop and
\* skips the label call; after the last URL the label call is made.
RelayDone(p) ==
    /\ emailPolls[p].pc = "relay"
    /\ \E outcome \in RelayOutcomes :
         LET poll == emailPolls[p]
             m == poll.batch[poll.i]
             url == UrlsOf(m)[poll.j]
         IN /\ mailBookmarked' = IF outcome = "ok"
                                 THEN mailBookmarked \cup {url}
                                 ELSE mailBookmarked
            /\ emailPolls' = [emailPolls EXCEPT ![p] =
                  IF ~BookmarkViaRelay(outcome) THEN NextMessage(poll)
                  ELSE IF poll.j < Len(UrlsOf(m))
                  THEN [poll EXCEPT !.j = poll.j + 1]
                  ELSE [poll EXCEPT !.pc = "label"]]
            /\ emailLoop' = IF BookmarkViaRelay(outcome) THEN emailLoop
                            ELSE [emailLoop EXCEPT !.pollFailed = TRUE]
    /\ UNCHANGED <<mailThreadOf, mailLabeled>>
    /\ UNCHANGED notEmailVars

\* The label call for the thread of the current message settles; its
\* failure is logged.
LabelDone(p) ==
    /\ emailPolls[p].pc = "label"
    /\ \E outcome \in {"ok", "failed"} :
         LET poll == emailPolls[p]
             m == poll.batch[poll.i]
         IN /\ mailLabeled' = IF outcome = "ok"
                              THEN LabelThread(mailLabeled, mailThreadOf,
                                               mailThreadOf[m])
                              ELSE mailLabeled
            /\ emailPolls' = [emailPolls EXCEPT ![p] = NextMessage(poll)]
            /\ emailLoop' = IF outcome = "ok" THEN emailLoop
                            ELSE [emailLoop EXCEPT !.pollFailed = TRUE]
    /\ UNCHANGED <<mailThreadOf, mailBookmarked>>
    /\ UNCHANGED notEmailVars

(***************************************************************************)
(* extractUrls of the mail intake, on the characters of a message body.    *)
(***************************************************************************)
\* String.prototype.toLowerCase, as the `i` flag of the patterns compares.
ToLowerChar(c) ==
    IF \E i \in 1..26 : UpperChars[i] = c
    THEN LowerChars[CHOOSE i \in 1..26 : UpperChars[i] = c]
    ELSE c
ToLowerCase(str) == [i \in 1..Len(str) |-> ToLowerChar(str[i])]

\* String.prototype.includes
Includes(str, pat) == IndexOf(str, pat, 1) # 0

MIN_URL_LENGTH == 15

\* The characters that [^\s<>"')\]},;] leaves out.
UrlStopChars == WhiteSpace \cup {"<", ">", "\"", "'", ")", "]", "}", ",", ";"}

\* The characters of [.)>,;:!?].
TrailingPunctuation == {".", ")", ">", ",", ";", ":", "!", "?"}

\* "http://"
SchemeHttp ==
    <<"h", "t", "t", "p", ":", "/", "/">>
\* "https://"
SchemeHttps ==
    <<"h", "t", "t", "p", "s", ":", "/", "/">>

\* Where the part behind the scheme starts when https?:\/\/ matches at i
\* (the `i` flag), 0 when it does not.
SchemeEnd(text, i) ==
    IF i + Len(SchemeHttps) - 1 <= Len(text)
       /\ ToLowerCase(SubSeq(text, i, i + Len(SchemeHttps) - 1)) = SchemeHttps
    THEN i + Len(SchemeHttps)
    ELSE IF i + Len(SchemeHttp) - 1 <= Len(text)
            /\ ToLowerCase(SubSeq(text, i, i + Len(SchemeHttp) - 1)) = SchemeHttp
    THEN i + Len(SchemeHttp)
    ELSE 0

\* The last index of the greedy run [^...]+ that starts at b; b - 1 when
\* the run is empty.
RECURSIVE RunEnd(_, _)
RunEnd(text, b) ==
    IF b > Len(text) \/ text[b] \in UrlStopChars THEN b - 1
    ELSE RunEnd(text, b + 1)

\* text.match(urlRegex) with the `g` flag: the matches from left to right,
\* each search resuming behind the match before.
RECURSIVE UrlMatches(_, _)
UrlMatches(text, from) ==
    IF from > Len(text) THEN <<>>
    ELSE LET b == SchemeEnd(text, from)
             e == IF b = 0 THEN 0 ELSE RunEnd(text, b)
         IN IF b # 0 /\ e >= b
            THEN <<SubSeq(text, from, e)>> \o UrlMatches(text, e + 1)
            ELSE UrlMatches(text, from + 1)

\* url.replace(/[.)>,;:!?]+$/, '')
RECURSIVE StripTrailing(_)
StripTrailing(url) ==
    IF url # <<>> /\ url[Len(url)] \in TrailingPunctuation
    THEN StripTrailing(SubSeq(url, 1, Len(url) - 1))
    ELSE url

\* "teams.microsoft.com"
PatTeams ==
    <<"t", "e", "a", "m", "s", ".", "m", "i", "c", "r", "o", "s", "o",
      "f", "t", ".", "c", "o", "m">>
\* "aka.ms/"
PatAka ==
    <<"a", "k", "a", ".", "m", "s", "/">>
\* "google.com/calendar"
PatCalendar ==
    <<"g", "o", "o", "g", "l", "e", ".", "c", "o", "m", "/", "c", "a",
      "l", "e", "n", "d", "a", "r">>
\* "dialin.teams"
PatDialin ==
    <<"d", "i", "a", "l", "i", "n", ".", "t", "e", "a", "m", "s">>
\* "unsubscribe"
PatUnsubscribe ==
    <<"u", "n", "s", "u", "b", "s", "c", "r", "i", "b", "e">>
\* "manage"
PatManage ==
    <<"m", "a", "n", "a", "g", "e">>
\* "preferences"
PatPreferences ==
    <<"p", "r", "e", "f", "e", "r", "e", "n", "c", "e", "s">>
\* "tracking"
PatTracking ==
    <<"t", "r", "a", "c", "k", "i", "n", "g">>
\* "click."
PatClick ==
    <<"c", "l", "i", "c", "k", ".">>
\* "open."
PatOpen ==
    <<"o", "p", "e", "n", ".">>
\* "tel:"
PatTel ==
    <<"t", "e", "l", ":">>
\* "mailto:"
PatMailto ==
    <<"m", "a", "i", "l", "t", "o", ":">>

\* REJECT_PATTERNS.some((p) => p.test(url)): every pattern carries the `i`
\* flag; /manage.*preferences/ wants the second word behind the first.
Rejected(url) ==
    \E low \in {ToLowerCase(url)} :
    \/ \E pat \in {PatTeams, PatAka, PatCalendar, PatDialin, PatUnsubscribe,
                   PatTracking, PatClick, PatOpen} : Includes(low, pat)
    \/ /\ Includes(low, PatManage)
       /\ IndexOf(low, PatPreferences,
                  IndexOf(low, PatManage, 1) + Len(PatManage)) # 0
    \/ StartsWith(low, PatTel)
    \/ StartsWith(low, PatMailto)

\* (mutant) a floor that also drops a URL of exactly the minimum length.
TooShort_Inclusive(url) == Len(url) <= MIN_URL_LENGTH

\* `if (url.length < MIN_URL_LENGTH) continue`
TooShort(url) == Len(url) < MIN_URL_LENGTH

\* The for loop over the matches: strip, the three `continue` tests, push.
RECURSIVE CollectUrls(_, _)
CollectUrls(matches, results) ==
    IF matches = <<>> THEN results
    ELSE LET url == StripTrailing(Head(matches))
             seen == {results[k] : k \in 1..Len(results)}
         IN IF TooShort(url) \/ Rejected(url) \/ url \in seen
            THEN CollectUrls(Tail(matches), results)
            ELSE CollectUrls(Tail(matches), Append(results, url))

ExtractUrls(text) == CollectUrls(UrlMatches(text, 1), <<>>)

\* The pieces the bodies are put together from.
\* "https://a.io/bc"
Url15 ==
    <<"h", "t", "t", "p", "s", ":", "/", "/", "a", ".", "i", "o", "/",
      "b", "c">>
\* "https://a.io/b"
Url14 ==
    <<"h", "t", "t", "p", "s", ":", "/", "/", "a", ".", "i", "o", "/",
      "b">>
\* "HTTP://A.IO/BCDE"
UrlUpper ==
    <<"H", "T", "T", "P", ":", "/", "/", "A", ".", "I", "O", "/", "B",
      "C", "D", "E">>
\* "http://CLICK.io/ab"
UrlClick ==
    <<"h", "t", "t", "p", ":", "/", "/", "C", "L", "I", "C", "K", ".",
      "i", "o", "/", "a", "b">>
\* "https://example.com/a"
UrlExample ==
    <<"h", "t", "t", "p", "s", ":", "/", "/", "e", "x", "a", "m", "p",
      "l", "e", ".", "c", "o", "m", "/", "a">>
\* "https://teams.microsoft.com/meeting/xyz"
UrlTeams ==
    <<"h", "t", "t", "p", "s", ":", "/", "/", "t", "e", "a", "m", "s",
      ".", "m", "i", "c", "r", "o", "s", "o", "f", "t", ".", "c", "o",
      "m", "/", "m", "e", "e", "t", "i", "n", "g", "/", "x", "y", "z">>
\* "http://x"
UrlShort ==
    <<"h", "t", "t", "p", ":", "/", "/", "x">>

UrlTokens == {"url15", "url14", "upper", "click", "teams", ",", ".", " ", "x"}

UrlTokenChars(t) ==
    CASE t = "url15" -> Url15
      [] t = "url14" -> Url14
      [] t = "upper" -> UrlUpper
      [] t = "click" -> UrlClick
      [] t = "teams" -> UrlTeams
      [] OTHER -> <<t>>

RECURSIVE UrlFlatten(_)
UrlFlatten(toks) ==
    IF toks = <<>> THEN <<>>
    ELSE UrlTokenChars(Head(toks)) \o UrlFlatten(Tail(toks))

RECURSIVE UrlTokenSeqs(_)
UrlTokenSeqs(n) ==
    IF n = 0 THEN {<<>>}
    ELSE LET shorter == UrlTokenSeqs(n - 1) IN
         shorter \cup {Append(q, t) : q \in {x \in shorter : Len(x) = n - 1},
                                      t \in UrlTokens}

\* "See https://example.com/a, and https://teams.microsoft.com/meeting/xyz.
\* Also http://x"
ExampleBody ==
    <<"S", "e", "e", " ">> \o UrlExample \o <<",", " ", "a", "n", "d", " ">>
    \o UrlTeams \o <<".", " ", "A", "l", "s", "o", " ">> \o UrlShort

MailBodies == {UrlFlatten(toks) : toks \in UrlTokenSeqs(MaxUrlTokens)}
                  \cup {ExampleBody}

NoExtract == [done |-> FALSE, urls |-> <<>>]

UrlInit ==
    /\ urlIn = <<>>
    /\ urlOut = NoExtract

\* One call of extractUrls on a body.
ExtractUrlsCall ==
    /\ ~urlOut.done
    /\ \E text \in MailBodies :
         /\ urlIn' = text
         /\ urlOut' = [done |-> TRUE, urls |-> ExtractUrls(text)]
    /\ UNCHANGED notUrlVars

(***************************************************************************)
(* TRIGGER_PATTERN: the pattern text is put together from the assistant    *)
(* name, compiled to a sequence of atoms, and tested against a text.       *)
(***************************************************************************)
\* The characters of the class in escapeRegex.
RegexMetaChars == {".", "*", "+", "?", "^", "$", "{", "}", "(", ")", "|",
                   "[", "]", "\\"}

\* (mutant) a name that is put into the pattern as it is.
EscapeRegex_Plain(str) == str

\* escapeRegex: str.replace(/[.*+?^${}()|[\]\\]/g, '\\$&')
RECURSIVE EscapeRegex(_)
EscapeRegex(str) ==
    IF str = <<>> THEN <<>>
    ELSE (IF Head(str) \in RegexMetaChars THEN <<"\\", Head(str)>>
          ELSE <<Head(str)>>) \o EscapeRegex(Tail(str))

\* The source text of TRIGGER_PATTERN: `^@${escapeRegex(ASSISTANT_NAME)}\\b`
TriggerSource(name) == <<"^", "@">> \o EscapeRegex(name) \o <<"\\", "b">>

\* new RegExp(source): the atoms of a pattern without groups and
\* quantifiers.  A backslash makes the next character a literal, except
\* that \b is the word-boundary assertion; ^ is the start assertion and an
\* unescaped dot stands for any character but a line break.
RECURSIVE Compile(_)
Compile(src) ==
    IF src = <<>> THEN <<>>
    ELSE IF Head(src) = "\\" /\ Len(src) >= 2
    THEN <<IF src[2] = "b" THEN [kind |-> "boundary", char |-> ""]
           ELSE [kind |-> "literal", char |-> src[2]]>>
         \o Compile(SubSeq(src, 3, Len(src)))
    ELSE <<CASE Head(src) = "^" -> [kind |-> "start", char |-> ""]
             [] Head(src) = "." -> [kind |-> "any", char |-> ""]
             [] OTHER -> [kind |-> "literal", char |-> Head(src)]>>
         \o Compile(Tail(src))

\* \w without the `u` flag: [A-Za-z0-9_]
Digits == {"0", "1", "2", "3", "4", "5", "6", "7", "8", "9"}
IsWordChar(c) ==
    \/ \E i \in 1..26 : LowerChars[i] = c \/ UpperChars[i] = c
    \/ c \in Digits
    \/ c = "_"

\* Whether the character at position p of the text is a word character;
\* the positions before the first and behind the last character are not.
WordAt(text, p) == p >= 1 /\ p <= Len(text) /\ IsWordChar(text[p])

\* The atoms match the text from position p on.  With the `i` flag two
\* characters are the same when their upper-case forms are.
RECURSIVE MatchFrom(_, _, _)
MatchFrom(atoms, text, p) ==
    IF atoms = <<>> THEN TRUE
    ELSE LET a == Head(atoms) IN
         CASE a.kind = "start" -> p = 1 /\ MatchFrom(Tail(atoms), text, p)
           [] a.kind = "boundary" ->
                 /\ WordAt(text, p - 1) # WordAt(text, p)
                 /\ MatchFrom(Tail(atoms), text, p)
           [] a.kind = "any" ->
                 /\ p <= Len(text)
                 /\ text[p] # "\n"
                 /\ MatchFrom(Tail(atoms), text, p + 1)
           [] OTHER ->
                 /\ p <= Len(text)
                 /\ ToUpperChar(text[p]) = ToUpperChar(a.char)
                 /\ MatchFrom(Tail(atoms), text, p + 1)

\* RegExp.prototype.test: a match from some position of the text.
RegexTest(atoms, text) ==
    \E p \in 1..(Len(text) + 1) : MatchFrom(atoms, text, p)

\* TRIGGER_PATTERN.test(text) for an assistant name.
TriggerPatternTest(name, text) == RegexTest(Compile(TriggerSource(name)), text)

\* The assistant names and the texts.
NameAndy == <<"A", "n", "d", "y">>
AssistantNames == {NameAndy, <<"a">>, <<"a", "b">>, <<"a", ".">>, <<".", "a">>,
                   <<"a", "+">>, <<"+">>, <<"\\", "b">>}

TriggerChars == {"@", "a", "A", "b", ".", "+", " "}

RECURSIVE CharSeqs(_, _)
CharSeqs(alphabet, n) ==
    IF n = 0 THEN {<<>>}
    ELSE LET shorter == CharSeqs(alphabet, n - 1) IN
         shorter \cup {Append(q, c) : q \in {x \in shorter : Len(x) = n - 1},
                                      c \in alphabet}

\* "@Andy ping", "@andy ping", "hi there", "@Andyx"
TextAndyPing == <<"@">> \o NameAndy \o <<" ", "p", "i", "n", "g">>
TextLowerAndyPing == <<"@", "a", "n", "d", "y", " ", "p", "i", "n", "g">>
TextHiThere == <<"h", "i", " ", "t", "h", "e", "r", "e">>
TextAndyx == <<"@">> \o NameAndy \o <<"x">>

TriggerTexts == CharSeqs(TriggerChars, MaxTextLen)
                   \cup {TextAndyPing, TextLowerAndyPing, TextHiThere, TextAndyx}

NoTrigger == [done |-> FALSE, matched |-> FALSE]

TriggerInit ==
    /\ trigIn = [name |-> <<>>, text |-> <<>>]
    /\ trigOut = NoTrigger

\* One test of a text against the pattern of an assistant name.
TriggerTest ==
    /\ ~trigOut.done
    /\ \E name \in AssistantNames, text \in TriggerTexts :
         /\ trigIn' = [name |-> name, text |-> text]
         /\ trigOut' = [done |-> TRUE, matched |-> TriggerPatternTest(name, text)]
    /\ UNCHANGED notTrigVars

(***************************************************************************)
(* The content of a Slack message: cleanText of the listener and           *)
(* stripBotMention, on the characters of the text.                         *)
(***************************************************************************)
\* <@id>, the way Slack writes a mention of a user.
MentionOf(id) == <<"<", "@">> \o id \o <<">">>

\* The string without the white space at its start.
RECURSIVE SkipBlanks(_)
SkipBlanks(str) ==
    IF str # <<>> /\ Head(str) \in WhiteSpace THEN SkipBlanks(Tail(str)) ELSE str

\* text.replace(new RegExp(`<@${botUserId}>\\s*`, 'g'), ''): every mention
\* goes, with the white space behind it; the search resumes behind a match.
RECURSIVE RemoveMentions(_, _)
RemoveMentions(text, mention) ==
    IF text = <<>> THEN <<>>
    ELSE IF StartsWith(text, mention)
    THEN RemoveMentions(SkipBlanks(Slice(text, Len(mention))), mention)
    ELSE <<Head(text)>> \o RemoveMentions(Tail(text), mention)

\* String.prototype.trim
RECURSIVE Trim(_)
Trim(str) ==
    IF str = <<>> THEN <<>>
    ELSE IF Head(str) \in WhiteSpace THEN Trim(Tail(str))
    ELSE IF str[Len(str)] \in WhiteSpace THEN Trim(SubSeq(str, 1, Len(str) - 1))
    ELSE str

\* (mutant) a replacement without the `g` flag: the first mention only.
StripBotMention_FirstOnly(botId, text) ==
    IF botId = <<>> THEN text
    ELSE LET hit == IndexOf(text, MentionOf(botId), 1) IN
         IF hit = 0 THEN Trim(text)
         ELSE Trim(SubSeq(text, 1, hit - 1)
                   \o SkipBlanks(Slice(text, hit - 1 + Len(MentionOf(botId)))))

\* SlackChannel.stripBotMention
StripBotMention(botId, text) ==
    IF botId = <<>> THEN text
    ELSE Trim(RemoveMentions(text, MentionOf(botId)))

\* `const cleanText = isDm ? text : this.stripBotMention(text)`
CleanText(botId, isDm, text) ==
    IF isDm THEN text ELSE StripBotMention(botId, text)

\* The pieces the texts are put together from: a mention of the bot, a
\* mention of somebody else, a word and a blank.
MentionTokens == {"bot", "human", "hi", " "}

MentionTokenChars(t) ==
    CASE t = "bot" -> MentionOf(BotUser)
      [] t = "human" -> MentionOf(HumanUser)
      [] t = "hi" -> <<"h", "i">>
      [] OTHER -> <<t>>

RECURSIVE MentionFlatten(_)
MentionFlatten(toks) ==
    IF toks = <<>> THEN <<>>
    ELSE MentionTokenChars(Head(toks)) \o MentionFlatten(Tail(toks))

SlackTexts == CharSeqs(MentionTokens, MaxMentionTokens)

NoContent == [done |-> FALSE, content |-> <<>>]

ContentInit ==
    /\ contentIn = [botUserId |-> <<>>, isDm |-> FALSE, toks |-> <<>>]
    /\ contentOut = NoContent

\* The listener computes the content of the message it emits: the bot
\* identity is known or not, the message is a DM or not.
SlackContent ==
    /\ ~contentOut.done
    /\ \E botId \in {<<>>, BotUser}, isDm \in BOOLEAN, toks \in SlackTexts :
         /\ contentIn' = [botUserId |-> botId, isDm |-> isDm, toks |-> toks]
         /\ contentOut' = [done |-> TRUE,
                           content |-> CleanText(botId, isDm, MentionFlatten(toks))]
    /\ UNCHANGED notContentVars

(***************************************************************************)
(* Inbound deliveries with their message ids: how often on-message was     *)
(* raised for each id.                                                     *)
(***************************************************************************)
\* Transport timestamps of inbound messages.
Timestamps == {"t1", "t2"}

\* `slack_${ts}_${userId}` and `sig_${msg.timestamp}_${msg.source}`
MsgId(via, ts, sender) == <<via, ts, sender>>

MsgIds ==
    {MsgId("slack", ts, u) : ts \in Timestamps, u \in SlackUsers}
        \cup {MsgId("signal", ts, src) : ts \in Timestamps,
                                         src \in {<<>>, SignalPeer, SignalAccount}}

\* The counts after the on-message callbacks of one delivery; the id of a
\* message is made of the timestamp and the user or source it came from.
RECURSIVE Raise(_, _, _, _)
Raise(counts, calls, via, ts) ==
    IF calls = <<>> THEN counts
    ELSE LET c == Head(calls)
             user == IF via = "slack"
                     THEN Slice(c.sender, Len(SlackPrefix(slackNs)))
                     ELSE c.sender
             id == MsgId(via, ts, user)
         IN Raise(IF c.cb = "message"
                  THEN [counts EXCEPT ![id] = counts[id] + 1] ELSE counts,
                  Tail(calls), via, ts)

InboundInit ==
    /\ raised = [id \in MsgIds |-> 0]
    /\ deliveries = 0

\* A Slack `message` event with its timestamp reaches the listener.
SlackDelivery ==
    /\ slackStarted
    /\ deliveries < MaxDeliveries
    /\ deliveries' = deliveries + 1
    /\ \E ev \in SlackEvents, newContact \in {"absent", "declines", "registers"},
          ts \in Timestamps :
         LET r == SlackListener(slackNs, botUserId, dmChannelCache, registered,
                                ev, newContact) IN
         /\ Cardinality(r.groups) <= MaxRegistered
         /\ lastCalls' = r.calls
         /\ registered' = r.groups
         /\ dmChannelCache' = r.cache
         /\ raised' = Raise(raised, r.calls, "slack", ts)
    /\ slackLast' = NoSlackSend
    /\ UNCHANGED <<slackNs, slackStarted, slackAuthPending, slackConnected,
                   botUserId>>
    /\ UNCHANGED notChannelInboundVars

\* poll() hands one entry of a `receive` result, with its timestamp, to
\* handleEntry.
SignalDelivery ==
    /\ deliveries < MaxDeliveries
    /\ deliveries' = deliveries + 1
    /\ \E entry \in SignalEntries, ts \in Timestamps :
         LET calls == HandleEntry(registered, entry) IN
         /\ lastCalls' = calls
         /\ raised' = Raise(raised, calls, "signal", ts)
    /\ slackLast' = NoSlackSend
    /\ UNCHANGED <<slackNs, slackStarted, slackAuthPending, slackConnected,
                   botUserId, dmChannelCache, registered>>
    /\ UNCHANGED notChannelInboundVars

(***************************************************************************)
(* A reply to the ChatId of an inbound message: the listener or            *)
(* processInbound makes the ChatId, sendMessage takes it apart again.      *)
(***************************************************************************)
\* String.prototype.replace(pat, with) for a string pattern: the first
\* occurrence, wherever it is.
JsReplace(str, pat, with) ==
    LET i == IndexOf(str, pat, 1) IN
    IF i = 0 THEN str
    ELSE SubSeq(str, 1, i - 1) \o with \o SubSeq(str, i + Len(pat), Len(str))

\* (mutant) a send that takes every ChatId for a number.
SendViaRpcParams_Recipient(jid) ==
    [group |-> FALSE, place |-> JsReplace(jid, StrSig \o Colon, <<>>)]

\* SignalChannel.sendViaRpc: the params of the `send` call, groupId or
\* recipient.
SendViaRpcParams(jid) ==
    IF StartsWith(jid, StrSig \o Colon \o StrGroup \o Colon)
    THEN [group |-> TRUE,
          place |-> JsReplace(jid, StrSig \o Colon \o StrGroup \o Colon, <<>>)]
    ELSE [group |-> FALSE, place |-> JsReplace(jid, StrSig \o Colon, <<>>)]

\* The on-message calls among the callbacks of a handler.
MessageCalls(calls) == SelectSeq(calls, LAMBDA c : c.cb = "message")

\* Where the message of each on-message call came from: the channel of the
\* Slack event; the group of the Signal message, or its source number.
SlackOrigins(calls, ev) ==
    [i \in 1..Len(MessageCalls(calls)) |->
        [via |-> "slack", chat_jid |-> MessageCalls(calls)[i].chat_jid,
         group |-> ev.channel_type # "im", place |-> SlackEventChannel(ev)]]

SignalPartOrigins(calls, source, groupId) ==
    [i \in 1..Len(MessageCalls(calls)) |->
        [via |-> "signal", chat_jid |-> MessageCalls(calls)[i].chat_jid,
         group |-> groupId # <<>>,
         place |-> IF groupId # <<>> THEN groupId ELSE source]]

SignalOrigins(groups, entry) ==
    IF ~entry.envelope THEN <<>>
    ELSE (IF entry.data # "none"
          THEN SignalPartOrigins(
                   ProcessInbound(groups, entry.source, GroupIdOf(entry.data),
                                  FALSE),
                   entry.source, GroupIdOf(entry.data))
          ELSE <<>>)
         \o
         (IF entry.sync # "none"
          THEN SignalPartOrigins(
                   ProcessInbound(groups, SignalAccount, GroupIdOf(entry.sync),
                                  TRUE),
                   SignalAccount, GroupIdOf(entry.sync))
          ELSE <<>>)

NoReply == [sent |-> FALSE, via |-> "none", chat_jid |-> <<>>,
            group |-> FALSE, place |-> <<>>, origin |-> <<>>]

RoundInit ==
    /\ inboundOrigins = <<>>
    /\ replyAddress = NoReply

\* A Slack `message` event without bot_id and subtype reaches the listener;
\* where it came from is kept for the reply.
SlackInbound ==
    /\ slackStarted
    /\ \E ev \in {e \in SlackEvents : ~e.bot_id /\ ~e.subtype},
          newContact \in {"absent", "declines", "registers"} :
         \E r \in {SlackListener(slackNs, botUserId, dmChannelCache, registered,
                                 ev, newContact)} :
         /\ Cardinality(r.groups) <= MaxRegistered
         /\ lastCalls' = r.calls
         /\ registered' = r.groups
         /\ dmChannelCache' = r.cache
         /\ inboundOrigins' = SlackOrigins(r.calls, ev)
    /\ slackLast' = NoSlackSend
    /\ replyAddress' = NoReply
    /\ UNCHANGED <<slackNs, slackStarted, slackAuthPending, slackConnected,
                   botUserId>>
    /\ UNCHANGED notChannelRoundVars

\* poll() hands one entry of a `receive` result, one with an envelope, to
\* handleEntry.
SignalInbound ==
    /\ \E entry \in {e \in SignalEntries : e.envelope} :
         /\ lastCalls' = HandleEntry(registered, entry)
         /\ inboundOrigins' = SignalOrigins(registered, entry)
    /\ slackLast' = NoSlackSend
    /\ replyAddress' = NoReply
    /\ UNCHANGED <<slackNs, slackStarted, slackAuthPending, slackConnected,
                   botUserId, dmChannelCache, registered>>
    /\ UNCHANGED notChannelRoundVars

\* The host is started again: a new SlackChannel of the same namespace,
\* with an empty DM cache and no bot user id.
SlackRecreate ==
    /\ dmChannelCache # [u \in SlackUsers |-> <<>>]
    /\ dmChannelCache' = [u \in SlackUsers |-> <<>>]
    /\ slackStarted' = FALSE
    /\ slackAuthPending' = FALSE
    /\ slackConnected' = FALSE
    /\ botUserId' = <<>>
    /\ UNCHANGED <<slackNs, slackLast, registered, lastCalls>>
    /\ UNCHANGED notChannelVars

\* SlackChannel.sendMessage to the ChatId of an inbound Slack message.
SlackReply ==
    /\ \E i \in 1..Len(inboundOrigins),
          open \in {"ok", "no_id", "rejects"}, post \in {"ok", "rejects"} :
         LET origin == inboundOrigins[i]
             resolved == ResolveChannelId(slackNs, dmChannelCache,
                                          origin.chat_jid, open)
             result == SlackSendResult(resolved, post)
         IN /\ origin.via = "slack"
            /\ dmChannelCache' = resolved.cache
            /\ slackLast' = [jid |-> origin.chat_jid, result |-> result,
                             channel |-> IF ~resolved.threw /\ post = "ok"
                                         THEN resolved.channel ELSE <<>>]
            /\ replyAddress' =
                  [sent |-> result = "returned", via |-> "slack",
                   chat_jid |-> origin.chat_jid, group |-> origin.group,
                   place |-> resolved.channel, origin |-> <<origin>>]
    /\ lastCalls' = <<>>
    /\ UNCHANGED <<slackNs, slackStarted, slackAuthPending, slackConnected,
                   botUserId, registered, inboundOrigins>>
    /\ UNCHANGED notChannelRoundVars

\* SignalChannel.sendViaRpc for the ChatId of an inbound Signal message.
SignalReply ==
    /\ \E i \in 1..Len(inboundOrigins), rpcOk \in BOOLEAN :
         LET origin == inboundOrigins[i]
             params == SendViaRpcParams(origin.chat_jid)
         IN /\ origin.via = "signal"
            /\ replyAddress' =
                  [sent |-> rpcOk, via |-> "signal",
                   chat_jid |-> origin.chat_jid, group |-> params.group,
                   place |-> params.place, origin |-> <<origin>>]
    /\ lastCalls' = <<>>
    /\ slackLast' = NoSlackSend
    /\ UNCHANGED <<slackNs, slackStarted, slackAuthPending, slackConnected,
                   botUserId, dmChannelCache, registered, inboundOrigins>>
    /\ UNCHANGED notChannelRoundVars

Init ==
    /\ SignalInit
    /\ OwnsInit
    /\ ChannelInit(<<>>)
    /\ VoiceInit(<<>>)
    /\ BodyInit
    /\ StripInit
    /\ RunInit("")
    /\ IpcInit(InvalidJson, InvalidJson)
    /\ EmailInit([m \in MailMessages |-> "t1"])
    /\ UrlInit
    /\ TriggerInit
    /\ ContentInit
    /\ InboundInit
    /\ SnapshotInit
    /\ RoundInit

(***************************************************************************)
(* The outbound side of the SignalChannel: connect, disconnect, sendMessage *)
(* and the queue drain.  No timer tick is taken, so the poll state stays   *)
(* as constructed.                                                         *)
(***************************************************************************)
SignalSendNext ==
    \/ ConnectStart
    \/ ConnectFinish
    \/ Disconnect
    \/ SendMessage
    \/ DirectRpcDone
    \/ FlushRpcDone

SpecSignalSend == Init /\ [][SignalSendNext]_vars

(***************************************************************************)
(* The inbound side of the SignalChannel: connect, disconnect, the poll    *)
(* timers and poll().  No sendMessage call is made.                        *)
(***************************************************************************)
SignalPollNext ==
    \/ ConnectStart
    \/ ConnectFinish
    \/ Disconnect
    \/ PollTick
    \/ PollDone

SpecSignalPoll == Init /\ [][SignalPollNext]_vars

(***************************************************************************)
(* Ownership queries alone.                                                *)
(***************************************************************************)
OwnsNext == AskOwners

SpecOwns == Init /\ [][OwnsNext]_vars

(***************************************************************************)
(* The channels' inbound side and SlackChannel.sendMessage, for an         *)
(* un-namespaced or a namespaced SlackChannel.                             *)
(***************************************************************************)
ChannelsInit ==
    /\ SignalInit
    /\ OwnsInit
    /\ \E ns \in {<<>>, <<"c", "i", "t">>} : ChannelInit(ns)
    /\ VoiceInit(<<>>)
    /\ BodyInit
    /\ StripInit
    /\ RunInit("")
    /\ IpcInit(InvalidJson, InvalidJson)
    /\ EmailInit([m \in MailMessages |-> "t1"])
    /\ UrlInit
    /\ TriggerInit
    /\ ContentInit
    /\ InboundInit
    /\ SnapshotInit
    /\ RoundInit

ChannelsNext ==
    \/ SlackConnectStart
    \/ SlackConnectFinish
    \/ SlackDisconnect
    \/ SlackEvent
    \/ SignalEntry
    \/ RegisterGroup
    \/ SlackSendMessage

SpecChannels == ChannelsInit /\ [][ChannelsNext]_vars

(***************************************************************************)
(* Inbound messages and the replies to their ChatIds, for the instance     *)
(* without a namespace and for namespaced ones.                            *)
(***************************************************************************)
RoundTripInit ==
    /\ SignalInit
    /\ OwnsInit
    /\ \E ns \in {<<>>, <<"c", "i", "t">>, StrChannel} : ChannelInit(ns)
    /\ VoiceInit(<<>>)
    /\ BodyInit
    /\ StripInit
    /\ RunInit("")
    /\ IpcInit(InvalidJson, InvalidJson)
    /\ EmailInit([m \in MailMessages |-> "t1"])
    /\ UrlInit
    /\ TriggerInit
    /\ ContentInit
    /\ InboundInit
    /\ SnapshotInit
    /\ RoundInit

RoundTripNext ==
    \/ SlackConnectStart
    \/ SlackConnectFinish
    \/ SlackRecreate
    \/ RegisterGroup
    \/ SlackInbound
    \/ SignalInbound
    \/ SlackReply
    \/ SignalReply

SpecRoundTrip == RoundTripInit /\ [][RoundTripNext]_vars

(***************************************************************************)
(* The voice endpoint, for every configured token.                         *)
(***************************************************************************)
VoiceSpecInit ==
    /\ SignalInit
    /\ OwnsInit
    /\ ChannelInit(<<>>)
    /\ \E configured \in VoiceTokens : VoiceInit(configured)
    /\ BodyInit
    /\ StripInit
    /\ RunInit("")
    /\ IpcInit(InvalidJson, InvalidJson)
    /\ EmailInit([m \in MailMessages |-> "t1"])
    /\ UrlInit
    /\ TriggerInit
    /\ ContentInit
    /\ InboundInit
    /\ SnapshotInit
    /\ RoundInit

VoiceNext == VoiceRequest

SpecVoice == VoiceSpecInit /\ [][VoiceNext]_vars

(***************************************************************************)
(* The text of one worker output.                                          *)
(***************************************************************************)
StripNext == StripOutput

SpecStrip == Init /\ [][StripNext]_vars

(***************************************************************************)
(* The body of one POST /api/run request, chunk by chunk.                  *)
(***************************************************************************)
VoiceBodyNext ==
    \/ BodyData
    \/ BodyEnd

SpecVoiceBody == Init /\ [][VoiceBodyNext]_vars

(***************************************************************************)
(* One voice run: its outputs, the worker's exit and the deadline timer.   *)
(***************************************************************************)
VoiceRunNext ==
    \/ RunStart("r1")
    \/ TimerFire("r1")
    \/ WorkerOutput("r1")
    \/ WorkerExit("r1")
    \/ RunAnswer("r1")

SpecVoiceRun == Init /\ [][VoiceRunNext]_vars

\* The timer fires when its delay has passed, and a settled promise
\* resumes the awaiting handler.
SpecVoiceRunFair ==
    SpecVoiceRun /\ WF_vars(TimerFire("r1")) /\ WF_vars(RunAnswer("r1"))

(***************************************************************************)
(* Two requests in flight: the workers of the voice path.                  *)
(***************************************************************************)
VoiceWorkersNext ==
    \E r \in Runs :
        \/ RunStart(r)
        \/ TimerFire(r)
        \/ WorkerExit(r)
        \/ RunAnswer(r)

SpecVoiceWorkers == Init /\ [][VoiceWorkersNext]_vars

(***************************************************************************)
(* Two voice runs with their outputs: the session id from one run to the   *)
(* next.  The requests carry no timeout, and the results are the plain     *)
(* answer or none.                                                         *)
(***************************************************************************)
VoiceSessionNext ==
    \E r \in Runs :
        \/ RunStart(r) /\ runs'[r].timeout.kind = "absent"
        \/ TimerFire(r)
        \/ WorkerOutputOf(r, {out \in RunOutputs :
                                    out.result \in {<<>>, <<"answer">>}})
        \/ WorkerExit(r)
        \/ RunAnswer(r)

SpecVoiceSession == Init /\ [][VoiceSessionNext]_vars

\* The same runs after a start that found a row under the voice key, or none.
StoredSessions == {"", "s1"}

VoiceStartupInit ==
    /\ SignalInit
    /\ OwnsInit
    /\ ChannelInit(<<>>)
    /\ VoiceInit(<<>>)
    /\ BodyInit
    /\ StripInit
    /\ \E stored \in StoredSessions : RunInit(stored)
    /\ IpcInit(InvalidJson, InvalidJson)
    /\ EmailInit([m \in MailMessages |-> "t1"])
    /\ UrlInit
    /\ TriggerInit
    /\ ContentInit
    /\ InboundInit
    /\ SnapshotInit
    /\ RoundInit

SpecVoiceStartup == VoiceStartupInit /\ [][VoiceSessionNext]_vars

(***************************************************************************)
(* Tool IPC: one bookmark request, one reminders request, and the worker   *)
(* polling for the bookmark response.                                      *)
(***************************************************************************)
IpcNext ==
    \/ BookmarkIpcStart
    \/ BookmarkRelayDone
    \/ BookmarkRespOpen
    \/ BookmarkRespWrite
    \/ BookmarkRespRename
    \/ WorkerPoll
    \/ RemindersIpc

IpcSpecInit ==
    /\ SignalInit
    /\ OwnsInit
    /\ ChannelInit(<<>>)
    /\ VoiceInit(<<>>)
    /\ BodyInit
    /\ StripInit
    /\ RunInit("")
    /\ \E b \in BookmarkRaws, r \in ReminderRaws : IpcInit(b, r)
    /\ EmailInit([m \in MailMessages |-> "t1"])
    /\ UrlInit
    /\ TriggerInit
    /\ ContentInit
    /\ InboundInit
    /\ SnapshotInit
    /\ RoundInit

SpecIpc == IpcSpecInit /\ [][IpcNext]_vars

(***************************************************************************)
(* The reminders snapshot between the host that writes it and the worker   *)
(* that reads it.                                                          *)
(***************************************************************************)
SnapshotNext ==
    \/ SnapshotWriteStart
    \/ SnapshotWriteData
    \/ SnapshotRead

SpecSnapshot == Init /\ [][SnapshotNext]_vars

(***************************************************************************)
(* The mail intake loop.                                                   *)
(***************************************************************************)
EmailNext ==
    \/ StartEmailIntakeLoop
    \/ \E p \in PollSlots :
          \/ EnsureLabelDone(p)
          \/ IntervalTick(p)
          \/ ListDone(p)
          \/ GetDone(p)
          \/ RelayDone(p)
          \/ LabelDone(p)

EmailSpecInit ==
    /\ SignalInit
    /\ OwnsInit
    /\ ChannelInit(<<>>)
    /\ VoiceInit(<<>>)
    /\ BodyInit
    /\ StripInit
    /\ RunInit("")
    /\ IpcInit(InvalidJson, InvalidJson)
    /\ \E threadOf \in [MailMessages -> MailThreads] : EmailInit(threadOf)
    /\ UrlInit
    /\ TriggerInit
    /\ ContentInit
    /\ InboundInit
    /\ SnapshotInit
    /\ RoundInit

SpecEmail == EmailSpecInit /\ [][EmailNext]_vars

\* The loop with the intake enabled or disabled.
EmailStartInit ==
    /\ SignalInit
    /\ OwnsInit
    /\ ChannelInit(<<>>)
    /\ VoiceInit(<<>>)
    /\ BodyInit
    /\ StripInit
    /\ RunInit("")
    /\ IpcInit(InvalidJson, InvalidJson)
    /\ \E enabled \in BOOLEAN :
          EmailInitWith([m \in MailMessages |-> "t1"], enabled)
    /\ UrlInit
    /\ TriggerInit
    /\ ContentInit
    /\ InboundInit
    /\ SnapshotInit
    /\ RoundInit

SpecEmailStart == EmailStartInit /\ [][EmailNext]_vars

(***************************************************************************)
(* extractUrls over the bounded bodies.                                    *)
(***************************************************************************)
UrlNext == ExtractUrlsCall

SpecUrls == Init /\ [][UrlNext]_vars

(***************************************************************************)
(* TRIGGER_PATTERN over the bounded names and texts.                       *)
(***************************************************************************)
TriggerNext == TriggerTest

SpecTrigger == Init /\ [][TriggerNext]_vars

(***************************************************************************)
(* The content of Slack messages over the bounded texts.                   *)
(***************************************************************************)
ContentNext == SlackContent

SpecContent == Init /\ [][ContentNext]_vars

(***************************************************************************)
(* Inbound deliveries, the same message possibly more than once.           *)
(***************************************************************************)
InboundNext ==
    \/ SlackConnectStart
    \/ SlackConnectFinish
    \/ RegisterGroup
    \/ SlackDelivery
    \/ SignalDelivery

SpecInbound == Init /\ [][InboundNext]_vars

(***************************************************************************)
(* Inbound events of both channels and the address book.                   *)
(***************************************************************************)
InboundEventsNext ==
    \/ SlackConnectStart
    \/ SlackConnectFinish
    \/ RegisterGroup
    \/ SlackEvent
    \/ SignalEntry

SpecInboundEvents == Init /\ [][InboundEventsNext]_vars

(***************************************************************************)
(* The outbound side under the scheduling the runtime guarantees: every    *)
(* `send` RPC answers (fetch carries a 15 s abort timeout), so the drain   *)
(* loop's await always resumes.                                            *)
(***************************************************************************)
SpecSignalSendFair == SpecSignalSend /\ WF_vars(FlushRpcDone)

(***************************************************************************)
(* Properties of the SignalChannel.                                        *)
(***************************************************************************)
Range(q) == {q[i] : i \in 1..Len(q)}

AnySendFailed == \E m \in Msgs : msgs[m].rpc = "failed"

\* The delivered messages that were passed to sendMessage while disconnected.
OfflineDelivered == SelectSeq(transport, LAMBDA m : msgs[m].offline)

IsStrictlyIncreasing(q) == \A i, j \in 1..Len(q) : i < j => q[i] < q[j]

\* C1: a message passed to sendMessage while the channel is disconnected is
\* handed to the transport only after a connect() that succeeded after the
\* call; and if no send fails, the transport receives the messages queued
\* while disconnected each at most once and in call order, all of them once
\* the channel is connected and the drain has ended.
C1_OfflineHeldUntilConnect ==
    /\ \A m \in Msgs :
         msgs[m].offline /\ (m = flushItem \/ m \in Range(transport))
            => msgs[m].reconnected
    /\ ~AnySendFailed => IsStrictlyIncreasing(OfflineDelivered)
    /\ ~AnySendFailed /\ connected /\ ~flushing =>
         \A m \in Msgs : msgs[m].offline => m \in Range(transport)

\* C2: once the drain loop runs it terminates, and unless a send failed it
\* ends with the queue empty; a connected channel whose drain is not running
\* has an empty queue unless a send failed.
C2_DrainEmptiesQueue ==
    /\ flushing ~> (~flushing /\ (AnySendFailed \/ outgoingQueue = <<>>))
    /\ [](connected /\ ~flushing /\ ~AnySendFailed => outgoingQueue = <<>>)

\* C2 witness: a drain that delivered two queued messages has ended with the
\* queue empty while the channel is still connected.
C2_Witness ==
    /\ connected /\ ~flushing /\ ~AnySendFailed
    /\ outgoingQueue = <<>>
    /\ Len(OfflineDelivered) >= 2

\* C3: when the `send` RPC awaited by sendMessage fails, the call returns
\* normally and the message is appended to the outgoing queue.
C3_FailedSendIsQueued ==
    [][\A m \in directInFlight :
          m \notin directInFlight' /\ msgs'[m].rpc = "failed"
             => /\ msgs'[m].call = "returned"
                /\ outgoingQueue' = Append(outgoingQueue, m)]_vars

\* C3 witness: a message whose direct send failed sits in the queue behind
\* another one.
C3_Witness ==
    \E m \in Msgs :
        /\ msgs[m].direct /\ msgs[m].rpc = "failed" /\ msgs[m].call = "returned"
        /\ Len(outgoingQueue) >= 2
        /\ outgoingQueue[Len(outgoingQueue)] = m

\* C4: no message is delivered ahead of a message that was passed to
\* sendMessage earlier and is still waiting in the outgoing queue.
C4_SendOrderPreserved ==
    \A q \in Range(outgoingQueue), d \in Range(transport) :
        msgs[q].offline => d < q

\* C6: at most one `receive` RPC is in flight, and the in-flight flag is set
\* exactly while one is: every way a poll ends clears it.
C6_SinglePollInFlight ==
    /\ receiveInFlight <= 1
    /\ polling <=> (receiveInFlight = 1)

\* C6 witness: a tick was coalesced, a poll ended by an exception in an entry
\* handler, and a later tick is polling again.
C6_Witness ==
    /\ coalesced
    /\ lastPollEnd = "threw"
    /\ receiveInFlight = 1

\* C7: at most one of the SignalChannel, the un-namespaced SlackChannel and a
\* namespaced SlackChannel claims a ChatId.
C7_OwnershipDisjoint ==
    Cardinality({c \in {"signal", "slack", "slackNs"} : ownsAnswer[c]}) <= 1

\* C5: SlackChannel.sendMessage returns without raising, also when the
\* channel is disconnected or chat.postMessage or opening the DM fails (the
\* message then being kept for the next connect).
C5_SlackSendNeverRaises == slackLast.result # "raised"

\* C8: no channel raises on-message for a message authored by the bot's own
\* identity (Slack: the bot user or a bot_id; Signal: the configured
\* account, sync messages included).
C8_NoSelfOnMessage ==
    \A i \in 1..Len(lastCalls) :
        lastCalls[i].cb = "message" => ~lastCalls[i].self

\* C9: a POST /api/run request is answered 401 and starts no worker unless
\* it carries an Authorization header `Bearer <token>` whose token equals
\* the configured voice token.
C9_RunRequiresBearerToken ==
    lastRequest.served /\ lastRequest.req.method = "POST"
        /\ Pathname(lastRequest.req.url) = "/api/run"
    => \/ /\ lastRequest.req.auth.present
          /\ lastRequest.req.auth.value = StrBearer \o voiceToken
       \/ /\ lastRequest.status = 401
          /\ ~lastRequest.worker

\* C10: GET /health is answered 200 and starts no worker, whatever the
\* Authorization header.
C10_HealthAlways200 ==
    lastRequest.served /\ lastRequest.req.method = "GET"
        /\ Pathname(lastRequest.req.url) = "/health"
    => lastRequest.status = 200 /\ ~lastRequest.worker

\* C10 witness: a GET /health without a valid token, on a host whose token
\* is set, was answered 200.
C10_Witness ==
    /\ lastRequest.served /\ lastRequest.req.method = "GET"
    /\ Pathname(lastRequest.req.url) = "/health"
    /\ voiceToken # <<>>
    /\ BearerToken(AuthHeaderOf(lastRequest.req)) # voiceToken
    /\ lastRequest.status = 200

\* The request named neither of the two routes of the endpoint.
IsOtherRoute(req) ==
    /\ ~(req.method = "GET" /\ Pathname(req.url) = "/health")
    /\ ~(req.method = "POST" /\ Pathname(req.url) = "/api/run")

\* C11 (as stated): every request whose (method, path) is neither
\* GET /health nor POST /api/run is answered 404.
C11_OtherRouteIs404 ==
    lastRequest.served /\ IsOtherRoute(lastRequest.req)
    => lastRequest.status = 404

\* C11 (amended): such a request is answered 404 when the token of its
\* Authorization header equals the configured token, and 401 otherwise;
\* it never starts a worker.
C11_OtherRouteIs404AfterAuth ==
    lastRequest.served /\ IsOtherRoute(lastRequest.req)
    => /\ lastRequest.status =
            IF BearerToken(AuthHeaderOf(lastRequest.req)) = voiceToken
            THEN 404 ELSE 401
       /\ ~lastRequest.worker

\* C11 witness: a request with the configured token for POST /health, or
\* for another method on /api/run, was answered 404.
C11_Witness ==
    /\ lastRequest.served /\ IsOtherRoute(lastRequest.req)
    /\ voiceToken # <<>>
    /\ lastRequest.req.auth.value = StrBearer \o voiceToken
    /\ Pathname(lastRequest.req.url) = "/api/run"
    /\ lastRequest.status = 404

Count(toks, t) == Cardinality({i \in 1..Len(toks) : toks[i] = t})
Balanced(toks) ==
    /\ Count(toks, "open") = Count(toks, "close")
    /\ \A n \in 1..Len(toks) :
           Count(SubSeq(toks, 1, n), "open") >= Count(SubSeq(toks, 1, n), "close")

\* The tokens of text that lie between a <internal> and the </internal>
\* that closes it.
WrappedText(toks) ==
    {i \in 1..Len(toks) :
        /\ toks[i] \in {"answer", "debug"}
        /\ \E o \in 1..(i - 1), c \in (i + 1)..Len(toks) :
              /\ toks[o] = "open" /\ toks[c] = "close"
              /\ Balanced(SubSeq(toks, o + 1, c - 1))}

\* C14: no text that the worker wrapped between <internal> and </internal>
\* is part of the result delivered for the output, for every placement of
\* marker pairs (several pairs, nested pairs, across line breaks); the
\* output `Here is the answer.<internal>debug=42</internal>` is delivered
\* as `Here is the answer.`; an output that is empty after stripping is
\* not delivered.
C14_InternalNeverDelivered ==
    stripOut.done
    => /\ stripOut.from \cap WrappedText(stripIn) = {}
       /\ stripIn = <<"answer", "open", "debug", "close">>
          => stripOut.delivered /\ stripOut.text = TextAnswer
       /\ stripOut.delivered <=> stripOut.text # <<>>

\* What one step may do to the run r1, told by the callback that ran.
RunStepOk ==
    LET old == runs["r1"]
        new == runs'["r1"]
        ev == voiceEvent'
    IN /\ old.resolved
          => new.resolved /\ new.result = old.result /\ new.error = old.error
       /\ old.phase = "answered"
          => new.phase = "answered" /\ new.response = old.response
       /\ old.phase = "pending" /\ ~old.resolved /\ ev.kind = "result"
          => IF ev.text # <<>>
             THEN new.resolved /\ new.result = ev.text /\ new.error = ""
             ELSE ~new.resolved
       /\ old.phase = "pending" /\ ~old.resolved
             /\ ev.kind \in {"error", "timer", "exit_rejected"}
          => new.resolved /\ new.result = <<>> /\ new.error # ""
       /\ old.phase = "pending" /\ new.phase = "answered"
          => /\ new.response.sent = 1
             /\ new.response.result = old.result
             /\ new.response.error = old.error
             /\ new.response.success <=> old.error = ""

\* C13: an accepted voice run is answered, and answered once, whatever the
\* order of the worker's outputs, an error output, the worker's exit and
\* the deadline timer; the first output whose stripped text is not empty
\* fixes the answer when it comes before any error, rejection or the
\* deadline, and nothing that arrives after the outcome was chosen changes
\* the outcome or the response.
C13_RunAnsweredOnce ==
    /\ [](runs["r1"].response.sent <= 1)
    /\ [][RunStepOk]_vars
    /\ (runs["r1"].phase = "pending") ~> (runs["r1"].phase = "answered")

\* C13 witness: the run was answered with a streamed result, and the worker
\* reported an error afterwards.
C13_Witness ==
    /\ runs["r1"].phase = "answered"
    /\ runs["r1"].response.sent = 1
    /\ runs["r1"].response.success
    /\ runs["r1"].response.result = TextAnswer
    /\ voiceEvent.kind = "error"

\* C15: the deadline a run's timer is armed with is max(requested timeout,
\* 120000 ms), 300000 ms when none is requested, and never below
\* 120000 ms; a run settled by the deadline is answered success=false with
\* the timeout error.
C15_DeadlineIsMaxWithFloor ==
    \A r \in Runs :
        runs[r].phase # "idle"
        => /\ runs[r].delay >= 120000
           /\ runs[r].timeout.kind = "absent" => runs[r].delay = 300000
           /\ runs[r].timeout.kind = "ms"
              => runs[r].delay = Max(runs[r].timeout.ms, 120000)
           /\ runs[r].phase = "answered" /\ runs[r].timer = "fired"
              => ~runs[r].response.success
                 /\ runs[r].response.error = ErrTimeout

\* The workers alive for a folder.
LiveWorkers(folder) ==
    {r \in Runs : runs[r].worker = "alive" /\ runs[r].folder = folder}

\* C16: at most one worker is alive for a conversation folder at any
\* instant, the workers of the voice path for the main folder included.
C16_OneWorkerPerFolder ==
    Cardinality(LiveWorkers(MainGroupFolder)) <= 1

\* The path the worker expects the bookmark response at.
ExpectedResponse == ResponsePath(BookmarkRequestPath, bookmarkRaw.responseFile)

\* C17: a bookmark response is visible under its final name only with its
\* complete body: the worker polling for that name never reads an empty or
\* a partial file.
C17_ResponseVisibleWhenComplete ==
    /\ workerRead.state \notin {"empty", "partial"}
    /\ bookmarkRaw.responseFile # <<>>
       => ipcFiles[ExpectedResponse].state \in {"absent", "full"}

\* C17 witness: the worker read the complete answer of the relay.
C17_Witness ==
    /\ workerRead = FullFile(RelayOk)
    /\ bookmarkIpc.pc = "done"

\* C18: every file the bookmark handler writes for a response (the
\* temporary file and the response) lies in the directory of the request
\* file, whatever response-file name the request carries.
C18_ResponseInRequestDir ==
    \A p \in IpcPaths \ SnapshotPaths :
        ipcFiles[p].state \in {"empty", "partial", "full"}
        => Dirname(p) = Dirname(BookmarkRequestPath)

\* C19: a request file that is not valid JSON is skipped: no relay or
\* bridge call, no snapshot, no response file, and the request file stays
\* as it was.
C19_MalformedRequestSkipped ==
    /\ bookmarkRaw.json = "invalid" /\ bookmarkIpc.pc # "idle"
       => /\ bookmarkIpc.pc = "skipped"
          /\ bookmarkIpc.relayCalls = 0 /\ ~bookmarkIpc.raised
          /\ \A p \in IpcPaths \ ({BookmarkRequestPath, RemindersRequestPath}
                                  \cup SnapshotPaths) : ipcFiles[p] = Absent
          /\ ipcFiles[BookmarkRequestPath] = RequestFile
    /\ remindersRaw.json = "invalid" /\ remindersIpc.done
       => /\ remindersIpc.bridgeLog = <<>> /\ ~remindersIpc.raised
          /\ \A p \in SnapshotPaths : ipcFiles[p] = Absent
          /\ ipcFiles[RemindersRequestPath] = RequestFile

\* C19 witness: both handlers have processed a file that is not JSON.
C19_Witness ==
    /\ bookmarkRaw.json = "invalid" /\ bookmarkIpc.pc = "skipped"
    /\ remindersRaw.json = "invalid" /\ remindersIpc.done

Failures == {"unreachable", "timeout", "unparsable"}

\* C20: when the relay or the bridge is unreachable, times out or answers
\* with text that cannot be parsed, the handler has made one attempt, has
\* not raised, and its result is an error object; a bookmark request with
\* a response-file name gets that error object as its response.
C20_OutageYieldsError ==
    /\ bookmarkIpc.outcome \in Failures
       => /\ bookmarkIpc.relayCalls = 1 /\ ~bookmarkIpc.raised
          /\ bookmarkIpc.result.set /\ bookmarkIpc.result.error
          /\ bookmarkIpc.pc = "done" /\ bookmarkIpc.request.responseFile # <<>>
             => ipcFiles[ExpectedResponse] = FullFile(bookmarkIpc.result)
    /\ remindersIpc.done /\ remindersIpc.outcome \in Failures
       => /\ ~remindersIpc.raised
          /\ remindersIpc.result.set /\ remindersIpc.result.error
          /\ Cardinality({i \in 1..Len(remindersIpc.bridgeLog) :
                             remindersIpc.bridgeLog[i] = remindersRaw.operation}) = 1

\* C20 witness: the relay timed out, and the error object is the response
\* of the request; the bridge failed for a reminders request.
C20_Witness ==
    /\ bookmarkIpc.outcome = "timeout" /\ bookmarkIpc.pc = "done"
    /\ bookmarkRaw.responseFile = <<"resp.json">>
    /\ ipcFiles[ExpectedResponse] = FullFile(RelayError)
    /\ remindersIpc.done /\ remindersIpc.outcome = "unreachable"

\* The reminders request is a request object with a mutating operation.
IsMutationRequest ==
    /\ remindersRaw.json = "object"
    /\ remindersRaw.operation \in
          {"create_reminder", "complete_reminder", "update_reminder"}

\* C21 (as stated): after processRemindersIpc with a mutating operation
\* the snapshot file of the originating conversation has been rewritten.
C21_MutationRewritesSnapshot ==
    remindersIpc.done /\ IsMutationRequest
    => ipcFiles[SnapshotPathOf(remindersIpc.groupFolder)].state = "full"

\* C21 (amended): after a mutating operation the handler asks the bridge
\* for a snapshot, after the call for the operation and before it returns,
\* and rewrites the snapshot file of the originating conversation when
\* that call succeeds; when it fails the file is left as it was.  The
\* snapshot of no other conversation is touched, and an operation that
\* does not mutate asks for no snapshot and rewrites none.
C21_SnapshotAfterMutation ==
    remindersIpc.done /\ remindersRaw.json = "object"
    => /\ IsMutationRequest
          => /\ remindersIpc.bridgeLog = <<remindersRaw.operation, "snapshot">>
             /\ ipcFiles[SnapshotPathOf(remindersIpc.groupFolder)] =
                    IF remindersIpc.snapOutcome = "ok"
                    THEN FullFile(BridgeOk) ELSE Absent
       /\ ~IsMutationRequest
          => /\ remindersIpc.bridgeLog = <<remindersRaw.operation>>
             /\ ipcFiles[SnapshotPathOf(remindersIpc.groupFolder)] = Absent
       /\ \A f \in GroupFolders \ {remindersIpc.groupFolder} :
              ipcFiles[SnapshotPathOf(f)] = Absent

\* C21 witness: a create_reminder request of the conversation `other`
\* whose bridge call failed, with the snapshot of `other` rewritten.
C21_Witness ==
    /\ remindersIpc.done /\ IsMutationRequest
    /\ remindersIpc.groupFolder = "other"
    /\ remindersIpc.outcome = "timeout"
    /\ ipcFiles[SnapshotPathOf("other")] = FullFile(BridgeOk)
    /\ ipcFiles[SnapshotPathOf("main")] = Absent

\* C22: a message carries the processed label only when the relay call has
\* succeeded for every URL extracted from it.
C22_LabelOnlyAfterAllRelayed ==
    \A m \in mailLabeled :
        \A k \in 1..Len(UrlsOf(m)) : UrlsOf(m)[k] \in mailBookmarked

\* The polls in progress.
PollsInProgress == {p \in PollSlots : emailPolls[p].pc \notin {"idle", "ensure"}}

\* C29: no failure of a list, get, relay or label call leaves the intake
\* loop: nothing is raised to the host, and the interval timer stays armed,
\* so that the next tick polls again.
C29_FailuresStayInLoop ==
    /\ ~emailLoop.hostRaised
    /\ emailLoop.running => emailLoop.timers > 0

\* C29 witness: a poll has failed, and a poll started by a later tick is at
\* its get call.
C29_Witness ==
    /\ emailLoop.pollFailed
    /\ \E p \in PollSlots :
          emailPolls[p].afterFailure /\ emailPolls[p].pc = "get"

\* C30: at most one pollEmailIntake run is in progress at any time.
C30_SinglePollInProgress ==
    Cardinality(PollsInProgress) <= 1

\* A match of the URL pattern can start at i: the scheme is there and at
\* least one character follows it.
IsUrlStart(text, i) ==
    SchemeEnd(text, i) # 0 /\ RunEnd(text, SchemeEnd(text, i)) >= SchemeEnd(text, i)

\* The positions where the matches of the text start: the possible starts
\* that lie in no match that starts further left.
UrlStarts(text) ==
    {i \in 1..Len(text) :
        /\ IsUrlStart(text, i)
        /\ ~\E j \in 1..(i - 1) :
               IsUrlStart(text, j) /\ i <= RunEnd(text, SchemeEnd(text, j))}

\* The match at i without its trailing punctuation: its longest prefix
\* that does not end in a punctuation character.
UrlAt(text, i) ==
    LET e == RunEnd(text, SchemeEnd(text, i))
        n == CHOOSE k \in (i - 1)..e :
                 /\ k = i - 1 \/ text[k] \notin TrailingPunctuation
                 /\ \A j \in (k + 1)..e : text[j] \in TrailingPunctuation
    IN SubSeq(text, i, n)

\* The starts whose URL is long enough and on no blacklist.
GoodStarts(text) ==
    {i \in UrlStarts(text) :
        \E u \in {UrlAt(text, i)} : Len(u) >= MIN_URL_LENGTH /\ ~Rejected(u)}

\* C23: extractUrls returns exactly the URL matches of the text, trailing
\* punctuation removed, that have at least 15 characters and match no
\* blacklist pattern, each once and in the order of first occurrence; for
\* the example body the result is https://example.com/a alone.
C23_ExtractUrlsExact ==
    urlOut.done =>
        \A out \in {urlOut.urls}, good \in {GoodStarts(urlIn)} :
        \A at \in {[i \in good |-> UrlAt(urlIn, i)]} :
            LET First(u) == CHOOSE i \in good :
                                /\ at[i] = u
                                /\ \A j \in good : at[j] = u => i <= j
            IN /\ \A k \in 1..Len(out) : \E i \in good : at[i] = out[k]
               /\ \A i \in good : \E k \in 1..Len(out) : out[k] = at[i]
               /\ \A k1, k2 \in 1..Len(out) :
                     k1 < k2 => /\ out[k1] # out[k2]
                                /\ First(out[k1]) < First(out[k2])
               /\ urlIn = ExampleBody => out = <<UrlExample>>

\* C23 witness: a body in which a URL of exactly 15 characters occurs twice
\* gave that URL once.
C23_Witness ==
    /\ urlOut.done
    /\ urlOut.urls = <<Url15>>
    /\ Cardinality(UrlStarts(urlIn)) = 2
    /\ \A i \in UrlStarts(urlIn) : UrlAt(urlIn, i) = Url15

\* The text starts with @ and the name, letters compared without case, and
\* behind the name lies a word boundary: of the last character of the name
\* and the character that follows it (none at the end of the text), exactly
\* one is a word character.
StartsWithTrigger(name, text) ==
    LET n == Len(name) + 1 IN
    /\ Len(text) >= n
    /\ ToLowerCase(SubSeq(text, 1, n)) = ToLowerCase(<<"@">> \o name)
    /\ IsWordChar(text[n]) # (Len(text) > n /\ IsWordChar(text[n + 1]))

\* C24: TRIGGER_PATTERN matches a text exactly when the text starts with @
\* and the assistant name, compared case-insensitively, and the name ends
\* at a word boundary; this holds for every name, metacharacters in it
\* being matched literally.  With the name Andy, "@Andy ping" and
\* "@andy ping" match, "hi there" and "@Andyx" do not.
C24_TriggerMatchesExactly ==
    trigOut.done =>
        /\ trigOut.matched = StartsWithTrigger(trigIn.name, trigIn.text)
        /\ trigIn.name = NameAndy =>
              /\ trigIn.text \in {TextAndyPing, TextLowerAndyPing} => trigOut.matched
              /\ trigIn.text \in {TextHiThere, TextAndyx} => ~trigOut.matched

\* C24 witness: a name with a metacharacter matched a text that spells it
\* in the other case.
C24_Witness ==
    /\ trigOut.done
    /\ trigOut.matched
    /\ trigIn.name = <<".", "a">>
    /\ trigIn.text = <<"@", ".", "A", " ">>

\* The text without a mention of the bot at its start, and optionally
\* without the white space that followed that mention.
LeadingStripped(text) ==
    IF StartsWith(text, MentionOf(BotUser))
    THEN LET rest == Slice(text, Len(MentionOf(BotUser))) IN
         {Slice(rest, n) : n \in {k \in 0..Len(rest) :
                                     \A j \in 1..k : rest[j] \in WhiteSpace}}
    ELSE {text}

\* C25 as stated: the content of a channel message is its text with the
\* leading mention of the bot removed and the rest unchanged; the content
\* of a DM is its text.
C25_LeadingMentionRemoved ==
    contentOut.done =>
        IF contentIn.isDm
        THEN contentOut.content = MentionFlatten(contentIn.toks)
        ELSE contentOut.content \in LeadingStripped(MentionFlatten(contentIn.toks))

\* The pieces of a text that remain: no mention of the bot, and no blank
\* that follows a mention of the bot, directly or over blanks only.
RECURSIVE KeptTokens(_, _)
KeptTokens(toks, afterMention) ==
    IF toks = <<>> THEN <<>>
    ELSE IF Head(toks) = "bot" THEN KeptTokens(Tail(toks), TRUE)
    ELSE IF Head(toks) = " " /\ afterMention THEN KeptTokens(Tail(toks), TRUE)
    ELSE <<Head(toks)>> \o KeptTokens(Tail(toks), FALSE)

\* The pieces between the first and the last one that is no blank.
Unpadded(toks) ==
    LET solid == {k \in 1..Len(toks) : toks[k] # " "} IN
    IF solid = {} THEN <<>>
    ELSE SubSeq(toks, CHOOSE k \in solid : \A j \in solid : k <= j,
                      CHOOSE k \in solid : \A j \in solid : k >= j)

\* C25 (amended): with the bot identity known, the content of a channel
\* message is its text without any mention of the bot and without the white
\* space behind each, trimmed at both ends; while the bot identity is not
\* known it is the text; the content of a DM is its text.
C25_AllMentionsRemoved ==
    contentOut.done =>
        contentOut.content =
            MentionFlatten(IF contentIn.isDm \/ contentIn.botUserId = <<>>
                           THEN contentIn.toks
                           ELSE Unpadded(KeptTokens(contentIn.toks, FALSE)))

\* C25 witness: a channel message with a mention of the bot in the middle
\* of its text and another at its start.
C25_Witness ==
    /\ contentOut.done
    /\ ~contentIn.isDm
    /\ contentIn.botUserId = BotUser
    /\ contentIn.toks = <<"bot", "hi", "bot", "hi">>
    /\ contentOut.content = <<"h", "i", "h", "i">>

\* C26: a session id that an output of the voice worker carries is in the
\* sessions table under the key voice once the callback for that output has
\* run, whether the output is a result or an error and whether or not the
\* response was sent before; a run that starts passes to its worker the id
\* the table holds.
C26_SessionPersistedAndReused ==
    /\ sessionStore[VOICE_SESSION_KEY] = voiceSessionId
    /\ voiceEvent.newSessionId # "" =>
          sessionStore[VOICE_SESSION_KEY] = voiceEvent.newSessionId
    /\ voiceEvent.kind = "start" =>
          runs[voiceEvent.run].sessionId = sessionStore[VOICE_SESSION_KEY]

\* C26 witness: the first run, started without a session, was answered; the
\* second run was started with the id s1 the first had announced; then an
\* error output of the first run's worker brought the id s2.
C26_Witness ==
    /\ runs["r1"].phase = "answered"
    /\ runs["r1"].sessionId = ""
    /\ runs["r2"].sessionId = "s1"
    /\ voiceEvent.run = "r1"
    /\ voiceEvent.kind = "error"
    /\ voiceEvent.newSessionId = "s2"
    /\ sessionStore[VOICE_SESSION_KEY] = "s2"

\* C27: a message that sendMessage put into the queue after its send had
\* failed is eventually received by the transport.
C27_RequeuedEventuallyDelivered ==
    \A m \in Msgs :
        (msgs[m].direct /\ msgs[m].rpc = "failed" /\ m \in Range(outgoingQueue))
            ~> (m \in Range(transport))

\* C28: on-message is raised at most once for a message id, however often
\* the message is delivered.
C28_OnMessageOncePerId ==
    \A id \in MsgIds : raised[id] <= 1

\* C31: every message passed to sendMessage has been received by the
\* transport, is in the outgoing queue, or is being sent (by sendMessage
\* itself or by the drain loop).
C31_NoOutboundLost ==
    \A m \in Msgs :
        msgs[m].call # "none" =>
            \/ m \in Range(transport)
            \/ m \in Range(outgoingQueue)
            \/ m \in directInFlight
            \/ flushItem = m

\* C32: at most one poll timer is alive, and none while the channel is
\* disconnected, so that no tick can start a `receive` RPC then.
C32_OnePollTimer ==
    /\ activeTimers <= 1
    /\ ~connected => activeTimers = 0

\* The callbacks of an inbound event come as on-chat-metadata, followed or
\* not by on-message for the same ChatId of the same channel, and an
\* on-message is for a ChatId of the address book.
CallsFollowAddressBook(calls, groups) ==
    \A i \in 1..Len(calls) :
        calls[i].cb = "message" =>
            /\ i > 1
            /\ calls[i - 1].cb = "metadata"
            /\ calls[i - 1].chat_jid = calls[i].chat_jid
            /\ calls[i - 1].via = calls[i].via
            /\ calls[i].chat_jid \in groups

\* C33: an inbound event raises on-message only for a ChatId that is in the
\* address book when the event is handled (for Slack, after the
\* auto-registration callback was tried), and on-chat-metadata for that
\* ChatId directly before it; for a ChatId that stays unknown it raises
\* on-chat-metadata only.
C33_MessageOnlyForKnownChat ==
    [][(lastCalls' # lastCalls \/ registered' = registered)
          => CallsFollowAddressBook(lastCalls', registered')]_vars

\* C33 witness: a Slack event for a ChatId that the auto-registration
\* callback put into the empty address book raised both callbacks.
C33_Witness ==
    /\ Len(lastCalls) = 2
    /\ lastCalls[2].cb = "message"
    /\ lastCalls[2].via = "slack"
    /\ registered = {lastCalls[2].chat_jid}

\* C34: the voice session id held in memory equals the row of the sessions
\* table under the key voice in every state, from the start on and after
\* every output of any of the concurrent runs; the table has no row that a
\* voice run changes or reads under another key: the other row keeps its
\* value, and the id a run passes to its worker is never that row's.
C34_MemoryEqualsVoiceRow ==
    /\ voiceSessionId = GetSession(sessionStore, VOICE_SESSION_KEY)
    /\ \A k \in SessionKeys \ {VOICE_SESSION_KEY} :
          /\ sessionStore[k] = MainSessionId
          /\ \A r \in Runs : runs[r].sessionId # sessionStore[k]

\* C34 witness: the process started with the row s1; both runs are under
\* way, the first started with s1, then an output of the second run's
\* worker brought s2, and the first run's worker is still alive.
C34_Witness ==
    /\ runs["r1"].sessionId = "s1"
    /\ runs["r1"].worker = "alive"
    /\ runs["r2"].worker = "alive"
    /\ voiceEvent.run = "r2"
    /\ voiceEvent.newSessionId = "s2"
    /\ voiceSessionId = "s2"

\* C35: whatever the worker has read from a reminders_snapshot.json is the
\* whole body of a snapshot the bridge gave without an error, never an
\* empty file and never a part of a body.
C35_WorkerReadsWholeSnapshot ==
    snapshotRead # NothingRead =>
        /\ snapshotRead.file.state = "full"
        /\ snapshotRead.file.body = BridgeOk

\* The state startEmailIntakeLoop itself sets: the loop without the note
\* of its last call, and the polls.
LoopState == <<[emailLoop EXCEPT !.lastStart = "none"], emailPolls>>

\* C36: however often startEmailIntakeLoop is called, there is at most one
\* interval timer and one initial run; a call that finds the loop running
\* or the intake disabled changes nothing; with the intake disabled no poll
\* and no timer ever exists; and the initial poll makes its calls only
\* after the label-ensure step of the first call has settled.
C36_StartIsIdempotent ==
    /\ [](/\ emailLoop.timers <= 1
          /\ emailLoop.initialRuns <= 1
          /\ ~emailLoop.enabled =>
                /\ emailLoop.timers = 0
                /\ \A p \in PollSlots : emailPolls[p] = IdlePoll
          /\ \A p \in PollSlots :
                emailPolls[p].initial /\ emailPolls[p].pc # "ensure"
                    => emailLoop.ensured)
    /\ [][emailLoop'.lastStart # emailLoop.lastStart
            /\ emailLoop'.lastStart \in {"duplicate", "disabled"}
          => LoopState' = LoopState]_vars

\* C36 witness: the loop was started, the label-ensure step has settled and
\* the initial poll is at its get call when a second call of
\* startEmailIntakeLoop returns without effect.
C36_Witness ==
    /\ emailLoop.lastStart = "duplicate"
    /\ emailLoop.timers = 1
    /\ emailLoop.initialRuns = 1
    /\ emailPolls["p1"].initial
    /\ emailPolls["p1"].pc = "get"

\* C37: every ChatId a channel has passed to on-message is owned by that
\* channel, and a sendMessage to it that went out addressed the place the
\* message came from: the Slack channel or DM channel of the event, the
\* Signal group, or the number of the sender.
C37_ChatIdRoundTrip ==
    /\ \A i \in 1..Len(inboundOrigins) :
          LET o == inboundOrigins[i] IN
          IF o.via = "slack" THEN SlackOwnsJid(slackNs, o.chat_jid)
                             ELSE SignalOwnsJid(o.chat_jid)
    /\ replyAddress.sent =>
          /\ replyAddress.place = replyAddress.origin[1].place
          /\ replyAddress.group = replyAddress.origin[1].group

\* C37 witness: after a direct message of the human user the host was
\* started again, and the reply to the user's ChatId went to the DM channel
\* that conversations.open gave.
C37_Witness ==
    /\ replyAddress.sent
    /\ replyAddress.via = "slack"
    /\ ~replyAddress.group
    /\ replyAddress.place = DmChannelOf(HumanUser)
    /\ ~slackStarted

====
